---- MODULE Spec2Model ----
(***************************************************************************)
(* Model of granola-ts-client:                                             *)
(*   - the HTTP transport (src/src/http.ts): token handling, retry loop,   *)
(*     backoff, per-attempt timeout;                                       *)
(*   - the transcript deduplication, similarity score, speaker            *)
(*     refinement, pipeline and Markdown export                            *)
(*     (src/src/transcript-client.ts);                                     *)
(*   - the paginate generator (src/pagination.ts);                         *)
(*   - the organization detector (src/src/organization-detector.ts).       *)
(***************************************************************************)
EXTENDS Integers, Sequences, FiniteSets, TLC

VARIABLES
    token,                \* Http.token ("" = unset / falsy)
    hasProvider,          \* Http.tokenProvider is set
    isTokenBeingFetched,  \* Http.isTokenBeingFetched
    retries,              \* Http.retries
    testEnv,              \* process.env.NODE_ENV === 'test'
    profile,              \* the environment: "sequential" or "concurrent"
    call,                 \* per call of get/post: position and locals
    lastSetToken,         \* argument of the latest setToken ("" = none yet)
    segments,             \* argument of _deduplicateSegments
    similarityThreshold,  \* argument, as a fraction <<num, den>>
    timeWindowSeconds,    \* argument, in milliseconds
    dedupPhase,           \* "input", "once", "twice"
    dedupOnce,            \* state of the run on the argument
    dedupTwice,           \* state of the run on the first run's output
    simText1,             \* first argument of _calculateTextSimilarity
    simText2,             \* second argument
    simPhase,             \* "input", "done"
    simResult,            \* the returned score, as a fraction <<num, den>>
    tMode,                \* "pipeline": getDocumentTranscriptWithSpeakers,
                          \* "refine": _improveSpeakerAssignment called directly
    fetched,              \* segments returned by getDocumentTranscript
    args,                 \* deduplicate, similarityThreshold, timeWindowSeconds
    refineInput,          \* argument of _improveSpeakerAssignment
    tPhase,               \* "input", "done"
    tResult,              \* what the operation returned or threw
    tTrace,               \* the steps run and the segments built: labelled by
                          \* source (pipeline) or as marked by the two passes
                          \* of the refinement (refine)
    gen,                  \* the paginate generator: position and locals
    yielded,              \* items handed to the caller so far
    fetchCalls,           \* cursors fetchPage was called with, in order
    pages,                \* pages fetchPage resolved with, in order
    orgConfig,            \* OrganizationDetector.config: toggles and default
    meeting,              \* argument of detectOrganization
    orgPhase,             \* "input", "done"
    orgResult,            \* what detectOrganization returned or threw
    transcript,           \* what getDocumentTranscriptWithSpeakers resolved
                          \* with inside exportTranscriptMarkdown
    exportPhase,          \* "input", "done"
    written               \* the content handed to Bun.write, or the failure

httpVars == <<token, hasProvider, isTokenBeingFetched, retries, testEnv,
              profile, call, lastSetToken>>
dedupVars == <<segments, similarityThreshold, timeWindowSeconds, dedupPhase,
               dedupOnce, dedupTwice>>
simVars == <<simText1, simText2, simPhase, simResult>>
transcriptVars == <<tMode, fetched, args, refineInput, tPhase, tResult, tTrace>>
pageVars == <<gen, yielded, fetchCalls, pages>>
orgVars == <<orgConfig, meeting, orgPhase, orgResult>>
exportVars == <<transcript, exportPhase, written>>
nonHttpVars == <<dedupVars, simVars, transcriptVars, pageVars, orgVars, exportVars>>
nonDedupVars == <<httpVars, simVars, transcriptVars, pageVars, orgVars, exportVars>>
nonSimVars == <<httpVars, dedupVars, transcriptVars, pageVars, orgVars, exportVars>>
nonTranscriptVars == <<httpVars, dedupVars, simVars, pageVars, orgVars, exportVars>>
nonPageVars == <<httpVars, dedupVars, simVars, transcriptVars, orgVars, exportVars>>
nonOrgVars == <<httpVars, dedupVars, simVars, transcriptVars, pageVars, exportVars>>
nonExportVars == <<httpVars, dedupVars, simVars, transcriptVars, pageVars, orgVars>>
vars == <<token, hasProvider, isTokenBeingFetched, retries, testEnv,
          profile, call, lastSetToken, segments, similarityThreshold,
          timeWindowSeconds, dedupPhase, dedupOnce, dedupTwice,
          simText1, simText2, simPhase, simResult,
          tMode, fetched, args, refineInput, tPhase, tResult, tTrace,
          gen, yielded, fetchCalls, pages,
          orgConfig, meeting, orgPhase, orgResult,
          transcript, exportPhase, written>>

(***************************************************************************)
(* Bounds of the exploration.                                              *)
(***************************************************************************)
MaxRetries == 2
MaxTextLen == 6
MaxFetched == 2
MaxPages == 3
MaxAttendees == 2

(***************************************************************************)
(* Program constants.                                                      *)
(***************************************************************************)
timeout == 5000
BackoffBaseMs == 250
LockWaitRounds == 10

CallIds == {1, 2}
NoToken == ""
Tokens == {"t1", "t2"}
NoAuth == "no Authorization header"

Max(a, b) == IF a >= b THEN a ELSE b
Min(a, b) == IF a <= b THEN a ELSE b

RECURSIVE Pow2(_)
Pow2(n) == IF n <= 0 THEN 1 ELSE 2 * Pow2(n - 1)

(***************************************************************************)
(* Errors: name and message parts (text, number, text, text).              *)
(***************************************************************************)
MkError(name, text, n, s1, s2) == [name |-> name, msg |-> <<text, n, s1, s2>>]
Undefined == MkError("undefined", "", 0, "", "")
AbortError == MkError("AbortError", "The operation was aborted", 0, "", "")
NetworkError == MkError("TypeError", "fetch failed", 0, "", "")
SyntaxError == MkError("SyntaxError", "JSON Parse error", 0, "", "")
TokenError == MkError("Error", "Failed to retrieve authentication token", 0, "", "")
TimeoutError == MkError("Error", "Request timed out after ms", timeout, "", "")
AuthRequiredError == MkError("Error", "Authentication required", 0, "", "")

StatusText(s) ==
    CASE s = 200 -> "OK"
      [] s = 400 -> "Bad Request"
      [] s = 404 -> "Not Found"
      [] s = 429 -> "Too Many Requests"
      [] s = 500 -> "Internal Server Error"
      [] OTHER   -> ""

HttpError(res) == MkError("Error", "HTTP", res.status, StatusText(res.status), res.body)

(***************************************************************************)
(* Responses of fetch.                                                     *)
(***************************************************************************)
HeaderValues ==
    {<<>>, <<"2">>, <<"2", "2">>, <<"2", "a">>, <<"a", "2">>, <<"a">>,
     <<"-", "2">>, <<"-">>}
NoHeader == [present |-> FALSE, value |-> <<>>]
RetryAfterHeaders == {NoHeader} \cup {[present |-> TRUE, value |-> v] : v \in HeaderValues}

JsonType == "application/json"
TextType == "text/plain"
Bodies == {"{\"a\":1}", "oops"}
JsonBodies == {"{\"a\":1}"}

MkResponse(kind, status, ra, ctype, body) ==
    [kind |-> kind, status |-> status, retryAfter |-> ra, ctype |-> ctype, body |-> body]
NoResp == MkResponse("none", 0, NoHeader, "", "")
NetworkFailure == MkResponse("reject", 0, NoHeader, "", "")
TimerAbort == MkResponse("abort", 0, NoHeader, "", "")

OkResponses == {MkResponse("http", 200, NoHeader, ct, b) : ct \in {JsonType, TextType}, b \in Bodies}
RetriableResponses == {MkResponse("http", s, h, TextType, "oops") : s \in {429, 500}, h \in RetryAfterHeaders}
ClientErrorResponses == {MkResponse("http", s, NoHeader, JsonType, b) : s \in {400, 404}, b \in Bodies}
Responses == OkResponses \cup RetriableResponses \cup ClientErrorResponses

\* the environment of a run: one caller at a time against a server that may
\* answer anything, or two concurrent callers against a server with few answers
Callers(p) == IF p = "sequential" THEN {1} ELSE CallIds
ServerResponses(p) ==
    IF p = "sequential" THEN Responses
    ELSE {MkResponse("http", 200, NoHeader, JsonType, "{\"a\":1}"),
          MkResponse("http", 500, NoHeader, TextType, "oops")}

(***************************************************************************)
(* Http.getBackoffDelay and the parseInt(header, 10) it relies on.         *)
(* Headers.get strips leading and trailing whitespace, so a header value   *)
(* never starts with a blank.                                              *)
(***************************************************************************)
DigitValue(ch) ==
    CASE ch = "0" -> 0 [] ch = "1" -> 1 [] ch = "2" -> 2 [] ch = "3" -> 3
      [] ch = "4" -> 4 [] ch = "5" -> 5 [] ch = "6" -> 6 [] ch = "7" -> 7
      [] ch = "8" -> 8 [] ch = "9" -> 9 [] OTHER -> -1

IsDigit(ch) == DigitValue(ch) >= 0

RECURSIVE DigitPrefix(_)
DigitPrefix(s) ==
    IF Len(s) = 0 \/ ~IsDigit(Head(s)) THEN <<>>
    ELSE <<Head(s)>> \o DigitPrefix(Tail(s))

RECURSIVE DigitsToInt(_, _)
DigitsToInt(s, acc) ==
    IF Len(s) = 0 THEN acc ELSE DigitsToInt(Tail(s), 10 * acc + DigitValue(Head(s)))

NaN == [nan |-> TRUE, value |-> 0]

parseInt(s) ==
    LET signed == Len(s) > 0 /\ Head(s) \in {"-", "+"}
        negative == Len(s) > 0 /\ Head(s) = "-"
        rest == IF signed THEN Tail(s) ELSE s
        digits == DigitPrefix(rest)
        magnitude == DigitsToInt(digits, 0)
    IN  IF Len(digits) = 0 THEN NaN
        ELSE [nan |-> FALSE, value |-> IF negative THEN 0 - magnitude ELSE magnitude]

\* variant: the header's seconds are not converted to milliseconds
getBackoffDelaySeconds(attempt, retryAfterHeader) ==
    LET truthy == retryAfterHeader.present /\ Len(retryAfterHeader.value) > 0
        seconds == parseInt(retryAfterHeader.value)
    IN  IF truthy /\ ~seconds.nan THEN seconds.value
        ELSE Pow2(attempt) * BackoffBaseMs

getBackoffDelay(attempt, retryAfterHeader) ==
    LET truthy == retryAfterHeader.present /\ Len(retryAfterHeader.value) > 0
        seconds == parseInt(retryAfterHeader.value)
    IN  IF truthy /\ ~seconds.nan THEN seconds.value * 1000
        ELSE Pow2(attempt) * BackoffBaseMs

(***************************************************************************)
(* Results of a call and the locals of Http.request.                       *)
(***************************************************************************)
NoResult == [kind |-> "none", value |-> "", error |-> Undefined]
Return(v) == [kind |-> "return", value |-> v, error |-> Undefined]
Throw(e) == [kind |-> "throw", value |-> "", error |-> e]

UndefinedValue == "undefined"
JsonValue(body) ==
    CASE body = "{\"a\":1}" -> "object a=1"
      [] OTHER              -> "not json"

IdleCall ==
    [pc |-> "idle", attempt |-> 0, lastError |-> Undefined, waitI |-> 0,
     auth |-> NoAuth, resp |-> NoResp, delayMs |-> 0, result |-> NoResult,
     fetches |-> 0, sleeps |-> 0, priorRetriable |-> TRUE, priorTransient |-> TRUE,
     afterSetToken |-> FALSE]

AuthorizationHeader(tok) == IF tok # NoToken THEN tok ELSE NoAuth

ResOk(res) == res.status >= 200 /\ res.status <= 299

IsRetriableStatus(status) == status = 429 \/ (status >= 500 /\ status < 600)

\* variant: off by one, a further pass through the loop
LoopConditionOneMore(attempt, r) == attempt <= r + 1

LoopCondition(attempt, r) == attempt <= r

RetriableOutcome(res) == res.kind = "http" /\ IsRetriableStatus(res.status)
TransientOutcome(res) == RetriableOutcome(res) \/ res.kind \in {"reject", "abort"}

\* the head of the for loop of Http.request, entered with attempt = att
\* (fetches, priorRetriable and priorTransient record the attempts made so
\* far and what the attempts before the current one received)
LoopHead(cs, att, tok) ==
    IF LoopCondition(att, retries)
    THEN [cs EXCEPT !.pc = "fetching", !.attempt = att, !.resp = NoResp,
                    !.auth = AuthorizationHeader(tok), !.fetches = @ + 1,
                    !.priorRetriable = @ /\ (att = 0 \/ RetriableOutcome(cs.resp)),
                    !.priorTransient = @ /\ (att = 0 \/ TransientOutcome(cs.resp))]
    ELSE [cs EXCEPT !.pc = "done", !.attempt = att, !.result = Throw(cs.lastError)]

Sleep(cs, ms) == [cs EXCEPT !.pc = "sleeping", !.delayMs = ms]

\* variant: the abort of the final attempt is rethrown as it is
CatchOutcomeRethrowAbort(err, attempt, r) ==
    IF attempt < r THEN [retry |-> TRUE, error |-> err]
    ELSE [retry |-> FALSE, error |-> err]

\* the catch block of Http.request: retry or the error to raise
CatchOutcome(err, attempt, r) ==
    IF err.name = "AbortError"
    THEN IF attempt < r THEN [retry |-> TRUE, error |-> err]
         ELSE [retry |-> FALSE, error |-> TimeoutError]
    ELSE IF attempt < r THEN [retry |-> TRUE, error |-> err]
         ELSE [retry |-> FALSE, error |-> err]

Catch(cs, err) ==
    LET cs1 == [cs EXCEPT !.lastError = err]
        o == CatchOutcome(err, cs.attempt, retries)
    IN  IF o.retry THEN Sleep(cs1, getBackoffDelay(cs.attempt, NoHeader))
        ELSE [cs1 EXCEPT !.pc = "done", !.result = Throw(o.error)]

\* variant: the NODE_ENV test is left out
OkOutcomeContentTypeOnly(res, isTest) ==
    IF res.ctype = JsonType
    THEN IF res.body \in JsonBodies
         THEN [parsed |-> TRUE, value |-> JsonValue(res.body)]
         ELSE [parsed |-> FALSE, value |-> ""]
    ELSE [parsed |-> TRUE, value |-> UndefinedValue]

\* what a 2xx response yields: a value, or a rejected res.json()
OkOutcome(res, isTest) ==
    IF isTest \/ res.ctype = JsonType
    THEN IF res.body \in JsonBodies
         THEN [parsed |-> TRUE, value |-> JsonValue(res.body)]
         ELSE [parsed |-> FALSE, value |-> ""]
    ELSE [parsed |-> TRUE, value |-> UndefinedValue]

\* the body of the try block once fetch has resolved with res
OnResponse(cs, res) ==
    LET cs1 == [cs EXCEPT !.resp = res]
    IN  IF ResOk(res)
        THEN LET o == OkOutcome(res, testEnv)
             IN  IF o.parsed THEN [cs1 EXCEPT !.pc = "done", !.result = Return(o.value)]
                 ELSE Catch(cs1, SyntaxError)
        ELSE IF IsRetriableStatus(res.status)
        THEN Sleep(cs1, getBackoffDelay(cs.attempt, res.retryAfter))
        ELSE Catch(cs1, HttpError(res))

(***************************************************************************)
(* The transport as a state machine: one action per step between awaits.   *)
(***************************************************************************)
ProviderResults == Tokens \cup {NoToken}

\* get/post -> request: the synchronous part of ensureToken, then either
\* the first pass through the loop head or the wait for a token
Request(c) ==
    /\ c \in Callers(profile)
    /\ call[c].pc \in {"idle", "done"}
    /\ LET fresh == [IdleCall EXCEPT !.afterSetToken = lastSetToken # NoToken]
       IN  IF token # NoToken \/ ~hasProvider
           THEN /\ call' = [call EXCEPT ![c] = LoopHead(fresh, 0, token)]
                /\ UNCHANGED isTokenBeingFetched
           ELSE IF isTokenBeingFetched
           THEN /\ call' = [call EXCEPT ![c] = [fresh EXCEPT !.pc = "waitLock"]]
                /\ UNCHANGED isTokenBeingFetched
           ELSE /\ call' = [call EXCEPT ![c] = [fresh EXCEPT !.pc = "provider"]]
                /\ isTokenBeingFetched' = TRUE
    /\ UNCHANGED <<token, hasProvider, retries, testEnv, profile, lastSetToken>>

\* ensureToken: one delay(100) of the wait loop has ended
LockWait(c) ==
    /\ call[c].pc = "waitLock"
    /\ IF token # NoToken
       THEN /\ call' = [call EXCEPT ![c] = LoopHead(call[c], 0, token)]
            /\ UNCHANGED isTokenBeingFetched
       ELSE IF call[c].waitI + 1 < LockWaitRounds
       THEN /\ call' = [call EXCEPT ![c].waitI = @ + 1]
            /\ UNCHANGED isTokenBeingFetched
       ELSE /\ call' = [call EXCEPT ![c].pc = "provider"]
            /\ isTokenBeingFetched' = TRUE
    /\ UNCHANGED <<token, hasProvider, retries, testEnv, profile, lastSetToken>>

\* ensureToken: the token provider resolved
ProviderResolve(c) ==
    /\ call[c].pc = "provider"
    /\ \E t \in ProviderResults :
          /\ token' = t
          /\ call' = [call EXCEPT ![c] = LoopHead(call[c], 0, t)]
    /\ isTokenBeingFetched' = FALSE
    /\ UNCHANGED <<hasProvider, retries, testEnv, profile, lastSetToken>>

\* ensureToken: the token provider rejected
ProviderReject(c) ==
    /\ call[c].pc = "provider"
    /\ call' = [call EXCEPT ![c].pc = "done", ![c].result = Throw(TokenError)]
    /\ isTokenBeingFetched' = FALSE
    /\ UNCHANGED <<token, hasProvider, retries, testEnv, profile, lastSetToken>>

\* fetch resolved with a response
FetchResolve(c) ==
    /\ call[c].pc = "fetching"
    /\ \E res \in ServerResponses(profile) : call' = [call EXCEPT ![c] = OnResponse(call[c], res)]
    /\ UNCHANGED <<token, hasProvider, isTokenBeingFetched, retries, testEnv, profile, lastSetToken>>

\* fetch rejected with a network error
FetchReject(c) ==
    /\ call[c].pc = "fetching"
    /\ call' = [call EXCEPT ![c] = Catch([call[c] EXCEPT !.resp = NetworkFailure], NetworkError)]
    /\ UNCHANGED <<token, hasProvider, isTokenBeingFetched, retries, testEnv, profile, lastSetToken>>

\* the per-attempt timer fired first: controller.abort()
FetchAbort(c) ==
    /\ call[c].pc = "fetching"
    /\ call' = [call EXCEPT ![c] = Catch([call[c] EXCEPT !.resp = TimerAbort], AbortError)]
    /\ UNCHANGED <<token, hasProvider, isTokenBeingFetched, retries, testEnv, profile, lastSetToken>>

\* the backoff delay ended: continue, attempt++ and the loop head
DelayElapsed(c) ==
    /\ call[c].pc = "sleeping"
    /\ call' = [call EXCEPT ![c] =
                  LoopHead([call[c] EXCEPT !.sleeps = @ + 1], call[c].attempt + 1, token)]
    /\ UNCHANGED <<token, hasProvider, isTokenBeingFetched, retries, testEnv, profile, lastSetToken>>

\* setToken(t); afterSetToken of a call records that it was started after
\* the latest setToken
SetToken(t) ==
    /\ token # t
    /\ token' = t
    /\ lastSetToken' = t
    /\ call' = [c \in CallIds |-> [call[c] EXCEPT !.afterSetToken = FALSE]]
    /\ UNCHANGED <<hasProvider, isTokenBeingFetched, retries, testEnv, profile>>

SetTokenProvider ==
    /\ ~hasProvider
    /\ hasProvider' = TRUE
    /\ UNCHANGED <<token, isTokenBeingFetched, retries, testEnv, profile, call,
                   lastSetToken>>

NoDedupRun == [sorted |-> <<>>, removed |-> {}, log |-> <<>>, output |-> <<>>]

DedupIdle ==
    /\ segments = <<>>
    /\ similarityThreshold = <<0, 1>>
    /\ timeWindowSeconds = <<0, 1>>
    /\ dedupPhase = "off"
    /\ dedupOnce = NoDedupRun
    /\ dedupTwice = NoDedupRun

SimIdle ==
    /\ simText1 = <<>>
    /\ simText2 = <<>>
    /\ simPhase = "off"
    /\ simResult = <<0, 1>>

NoTranscript == [kind |-> "none", value |-> <<>>, error |-> Undefined]
NoTrace == [built |-> <<>>, ran |-> {}]
NoArgs == [deduplicate |-> FALSE, similarityThreshold |-> <<0, 1>>,
           timeWindowSeconds |-> <<0, 1>>]

TranscriptIdle ==
    /\ tMode = "off"
    /\ fetched = <<>>
    /\ args = NoArgs
    /\ refineInput = <<>>
    /\ tPhase = "off"
    /\ tResult = NoTranscript
    /\ tTrace = NoTrace

\* undefined, as the value of cursor and of a page's next
NoCursor == "(undefined)"

\* the generator object: pc is its position, cursor / items / index / next
\* its locals, requested whether a next() of the caller is pending,
\* outstanding the number of unsettled fetchPage calls
NewGenerator(pc) ==
    [pc |-> pc, cursor |-> NoCursor, items |-> <<>>, index |-> 0,
     next |-> NoCursor, requested |-> FALSE, outstanding |-> 0]

PageIdle ==
    /\ gen = NewGenerator("off")
    /\ yielded = <<>>
    /\ fetchCalls = <<>>
    /\ pages = <<>>

NoEvent == [present |-> FALSE, creatorEmail |-> <<>>, attendees |-> <<>>]
NoPeople == [present |-> FALSE, companyName |-> <<>>, creatorEmail |-> <<>>,
             attendees |-> <<>>]
NullMeeting == [isNull |-> TRUE, title |-> <<>>, google_calendar_event |-> NoEvent,
                people |-> NoPeople]
NoDetection == [kind |-> "none", value |-> ""]

OrgIdle ==
    /\ orgConfig = [useCalendarData |-> TRUE, useTitleKeywords |-> TRUE,
                    usePeopleData |-> TRUE, defaultOrganization |-> "Unknown"]
    /\ meeting = NullMeeting
    /\ orgPhase = "off"
    /\ orgResult = NoDetection

NoFile == [kind |-> "none", content |-> <<>>, error |-> Undefined]

ExportIdle ==
    /\ transcript = <<>>
    /\ exportPhase = "off"
    /\ written = NoFile

NonHttpIdle ==
    DedupIdle /\ SimIdle /\ TranscriptIdle /\ PageIdle /\ OrgIdle /\ ExportIdle

HttpInit ==
    /\ token \in Tokens \cup {NoToken}
    /\ hasProvider \in BOOLEAN
    /\ isTokenBeingFetched = FALSE
    /\ retries \in 0..MaxRetries
    /\ testEnv \in BOOLEAN
    /\ call = [c \in CallIds |-> IdleCall]
    /\ lastSetToken = NoToken

Init ==
    /\ HttpInit
    /\ profile = "sequential"
    /\ NonHttpIdle

CallStep(c) ==
    \/ ProviderResolve(c)
    \/ ProviderReject(c)
    \/ FetchResolve(c)
    \/ FetchReject(c)
    \/ FetchAbort(c)
    \/ DelayElapsed(c)

Next ==
    \/ \E c \in CallIds : Request(c) /\ UNCHANGED nonHttpVars
    \/ \E c \in CallIds : CallStep(c) /\ UNCHANGED nonHttpVars
    \/ \E t \in Tokens : SetToken(t) /\ UNCHANGED nonHttpVars
    \/ SetTokenProvider /\ UNCHANGED nonHttpVars

Spec == Init /\ [][Next]_vars

\* every started step of a call is eventually taken: fetch resolves, rejects
\* or is aborted, every sleep ends, the token provider settles
FairSpec == Spec /\ \A c \in CallIds : WF_vars(CallStep(c) /\ UNCHANGED nonHttpVars)

\* two concurrent callers on one Http instance built without a token
InitConc ==
    /\ token = NoToken
    /\ hasProvider \in BOOLEAN
    /\ isTokenBeingFetched = FALSE
    /\ retries \in 0..1
    /\ testEnv = FALSE
    /\ profile = "concurrent"
    /\ call = [c \in CallIds |-> IdleCall]
    /\ lastSetToken = NoToken
    /\ NonHttpIdle

NextConc ==
    \/ Next
    \/ \E c \in CallIds : LockWait(c) /\ UNCHANGED nonHttpVars

SpecConc == InitConc /\ [][NextConc]_vars

(***************************************************************************)
(* Claims about the transport.                                             *)
(***************************************************************************)
IsClientError(res) ==
    res.kind = "http" /\ res.status >= 400 /\ res.status <= 499 /\ res.status # 429

\* C1: a call made while no token is available never sends a request
\* without an Authorization header and ends with 'Authentication required'.
C1_AuthenticationRequired ==
    \A c \in CallIds :
        /\ call[c].fetches > 0 => call[c].auth # NoAuth
        /\ (call[c].pc = "done" /\ call[c].fetches = 0)
              => call[c].result = Throw(AuthRequiredError)

\* C2: once an attempt has received a 4xx status other than 429 the call
\* has ended, raising an error with the status, status text and body: it
\* neither sleeps nor fetches again.
C2_ClientErrorRaisesImmediately ==
    \A c \in CallIds :
        IsClientError(call[c].resp)
            => /\ call[c].pc = "done"
               /\ call[c].result = Throw(HttpError(call[c].resp))

ErrorDescribes(e, res) ==
    CASE res.kind = "http"   -> e.msg[1] = "HTTP" /\ e.msg[2] = res.status
      [] res.kind = "reject" -> e = NetworkError
      [] res.kind = "abort"  -> e = TimeoutError
      [] OTHER               -> FALSE

\* C3: when every one of the retries+1 attempts failed with a retriable
\* outcome, the call throws an error describing the last failed attempt.
C3_ThrowsLastSeenError ==
    \A c \in CallIds :
        (/\ call[c].pc = "done"
         /\ call[c].fetches = retries + 1
         /\ call[c].priorTransient
         /\ TransientOutcome(call[c].resp))
            => /\ call[c].result.kind = "throw"
               /\ ErrorDescribes(call[c].result.error, call[c].resp)

\* C4 as stated: k attempts with 429/5xx and then any 2xx response give
\* exactly k+1 attempts and the parsed body of the 2xx response.
C4_AnyOkReturnsParsedBody ==
    \A c \in CallIds :
        (ResOk(call[c].resp) /\ call[c].resp.kind = "http" /\ call[c].priorRetriable)
            => /\ call[c].pc = "done"
               /\ call[c].result = Return(JsonValue(call[c].resp.body))
               /\ call[c].sleeps = call[c].attempt
               /\ call[c].fetches = call[c].attempt + 1

\* C4 amended: k attempts with 429/5xx and then a 2xx response give
\* exactly k+1 attempts and the parsed body when the body is well-formed
\* JSON read as JSON (JSON content type, or NODE_ENV = test), and undefined
\* when the content type is not JSON outside test mode.
C4_OkAfterRetriesReturnsBody ==
    \A c \in CallIds :
        (ResOk(call[c].resp) /\ call[c].resp.kind = "http" /\ call[c].priorRetriable)
            => LET res == call[c].resp
                   ended(v) == /\ call[c].pc = "done"
                               /\ call[c].result = Return(v)
                               /\ call[c].sleeps = call[c].attempt
                               /\ call[c].fetches = call[c].attempt + 1
               IN  IF testEnv \/ res.ctype = JsonType
                   THEN res.body \in JsonBodies => ended(JsonValue(res.body))
                   ELSE ended(UndefinedValue)

C4_Witness ==
    \E c \in CallIds :
        /\ call[c].pc = "done"
        /\ call[c].attempt = 1
        /\ call[c].priorRetriable
        /\ call[c].resp.status = 200
        /\ call[c].result = Return("object a=1")
        /\ call[c].fetches = 2

\* C5: a call makes at most retries+1 fetch attempts, and every call that
\* has started eventually returns or throws.
C5_CallTerminates ==
    /\ [](\A c \in CallIds : call[c].fetches <= retries + 1)
    /\ \A c \in CallIds : (call[c].pc # "idle") ~> (call[c].pc = "done")

C5_Witness ==
    \E c \in CallIds :
        /\ call[c].pc = "done"
        /\ retries >= 1
        /\ call[c].fetches = retries + 1
        /\ call[c].sleeps >= 1

\* C6: a timeout of the final attempt throws 'Request timed out after
\* <timeout> ms'; a network error of the final attempt is rethrown as it
\* is; the two errors differ.
C6_TimeoutIsDistinct ==
    \A c \in CallIds :
        /\ (call[c].resp.kind = "abort" /\ call[c].attempt = retries)
              => /\ call[c].pc = "done"
                 /\ call[c].result = Throw(TimeoutError)
                 /\ call[c].result.error.msg[2] = timeout
        /\ (call[c].resp.kind = "reject" /\ call[c].attempt = retries)
              => /\ call[c].pc = "done"
                 /\ call[c].result = Throw(NetworkError)
                 /\ call[c].result.error # TimeoutError

C6_Witness ==
    \E c \in CallIds :
        /\ call[c].pc = "done"
        /\ call[c].resp.kind = "abort"
        /\ call[c].attempt = retries
        /\ call[c].sleeps >= 1
        /\ call[c].result = Throw(TimeoutError)

\* the header reading the claims speak of, stated on the header's text
AllDigits(v) == Len(v) > 0 /\ \A i \in 1..Len(v) : IsDigit(v[i])
SignLength(v) == IF Len(v) > 0 /\ v[1] \in {"-", "+"} THEN 1 ELSE 0
LeadingDigitCount(v) ==
    LET from == SignLength(v)
        ok(k) == \A i \in 1..k : IsDigit(v[from + i])
    IN  CHOOSE k \in 0..(Len(v) - from) :
            /\ ok(k)
            /\ \A m \in 0..(Len(v) - from) : ok(m) => m <= k
RECURSIVE DecimalValue(_, _, _)
DecimalValue(v, from, k) ==
    IF k = 0 THEN 0 ELSE 10 * DecimalValue(v, from, k - 1) + DigitValue(v[from + k])
LeadingInteger(v) ==
    LET n == DecimalValue(v, SignLength(v), LeadingDigitCount(v))
    IN  IF Len(v) > 0 /\ v[1] = "-" THEN 0 - n ELSE n

\* C7 as stated: the sleep is Retry-After x 1000 ms when the 429/5xx
\* response has a Retry-After header that is a whole number, and
\* 250 x 2^n ms in every other case.
C7_WholeNumberOrBackoff ==
    \A c \in CallIds :
        call[c].pc = "sleeping"
            => LET res == call[c].resp
                   h == res.retryAfter
               IN  IF RetriableOutcome(res) /\ h.present /\ AllDigits(h.value)
                   THEN call[c].delayMs = LeadingInteger(h.value) * 1000
                   ELSE call[c].delayMs = BackoffBaseMs * Pow2(call[c].attempt)

\* C7 amended: the sleep is N x 1000 ms when the 429/5xx response has a
\* Retry-After header that begins with an integer N (an optional sign and
\* decimal digits, whatever follows them), and 250 x 2^n ms otherwise:
\* no header, an empty header, a header without a leading integer, a
\* network failure or a timeout.
C7_LeadingIntegerOrBackoff ==
    \A c \in CallIds :
        call[c].pc = "sleeping"
            => LET res == call[c].resp
                   h == res.retryAfter
               IN  IF RetriableOutcome(res) /\ h.present /\ LeadingDigitCount(h.value) > 0
                   THEN call[c].delayMs = LeadingInteger(h.value) * 1000
                   ELSE call[c].delayMs = BackoffBaseMs * Pow2(call[c].attempt)

C7_Witness ==
    \E c \in CallIds :
        /\ call[c].pc = "sleeping"
        /\ call[c].attempt = 1
        /\ call[c].resp.status = 429
        /\ call[c].resp.retryAfter.value = <<"2", "a">>
        /\ call[c].delayMs = 2000

(***************************************************************************)
(* Transcript deduplication (src/src/transcript-client.ts).                *)
(* Texts are sequences of characters; scores and thresholds are fractions  *)
(* <<numerator, denominator>> with a positive denominator; times are in    *)
(* milliseconds.                                                           *)
(***************************************************************************)
MaxSegments == 3

\* getTime() of an Invalid Date is NaN, written InvalidTime; every valid
\* time of the model is >= 0
InvalidTime == -1

\* a > b on numbers: false when either side is NaN
GreaterThan(a, b) == a # InvalidTime /\ b # InvalidTime /\ a > b

FracGE(f, g) == f[1] * g[2] >= g[1] * f[2]
FracGT(f, g) == f[1] * g[2] > g[1] * f[2]

LowerChar(ch) ==
    CASE ch = "A" -> "a" [] ch = "B" -> "b" [] ch = "C" -> "c" [] ch = "D" -> "d"
      [] ch = "E" -> "e" [] ch = "X" -> "x" [] OTHER -> ch

RECURSIVE toLowerCase(_)
toLowerCase(s) ==
    IF Len(s) = 0 THEN <<>> ELSE <<LowerChar(Head(s))>> \o toLowerCase(Tail(s))

includes(s, sub) ==
    \E k \in 0..(Len(s) - Len(sub)) : SubSeq(s, k + 1, k + Len(sub)) = sub

\* matrix[i][j] of _longestCommonSubsequence
RECURSIVE LcsMatrix(_, _, _, _)
LcsMatrix(s1, s2, i, j) ==
    IF i = 0 \/ j = 0 THEN 0
    ELSE IF s1[i] = s2[j] THEN LcsMatrix(s1, s2, i - 1, j - 1) + 1
    ELSE Max(LcsMatrix(s1, s2, i - 1, j), LcsMatrix(s1, s2, i, j - 1))

longestCommonSubsequence(s1, s2) == LcsMatrix(s1, s2, Len(s1), Len(s2))

calculateTextSimilarity(text1, text2) ==
    LET s1 == toLowerCase(text1)
        s2 == toLowerCase(text2)
        minLen == Min(Len(s1), Len(s2))
        maxLen == Max(Len(s1), Len(s2))
        lcs == longestCommonSubsequence(s1, s2)
    IN  IF Len(s1) = 0 /\ Len(s2) = 0 THEN <<1, 1>>
        ELSE IF Len(s1) = 0 \/ Len(s2) = 0 THEN <<0, 1>>
        ELSE IF s1 = s2 THEN <<1, 1>>
        ELSE IF includes(s1, s2) \/ includes(s2, s1)
        THEN <<5 * minLen + maxLen, 5 * maxLen>>
        ELSE IF lcs >= maxLen THEN <<1, 1>> ELSE <<lcs, maxLen>>

\* [...segments].sort by start_time: Array.prototype.sort is stable
RECURSIVE InsertByStart(_, _)
InsertByStart(sorted, seg) ==
    IF Len(sorted) = 0 THEN <<seg>>
    ELSE IF sorted[Len(sorted)].start_time <= seg.start_time THEN Append(sorted, seg)
    ELSE Append(InsertByStart(SubSeq(sorted, 1, Len(sorted) - 1), seg), sorted[Len(sorted)])

\* variant: the segments are scanned in the order the caller supplied
SortByStartAsGiven(segs) == segs

RECURSIVE SortByStart(_)
SortByStart(segs) ==
    IF Len(segs) = 0 THEN <<>>
    ELSE InsertByStart(SortByStart(SubSeq(segs, 1, Len(segs) - 1)), segs[Len(segs)])

NearExact == <<95, 100>>

\* variant: the later segment of a microphone/system pair is always dropped
DuplicateToRemoveLater(segment, other, similarity) ==
    IF segment.source # other.source THEN "other"
    ELSE IF FracGT(similarity, NearExact) \/ Len(segment.text) >= Len(other.text)
    THEN "other" ELSE "segment"

\* variant: the near-exact test also covers a score of 0.70
DuplicateToRemoveLowCut(segment, other, similarity) ==
    IF segment.source = "microphone" /\ other.source = "system" THEN "other"
    ELSE IF segment.source = "system" /\ other.source = "microphone" THEN "segment"
    ELSE IF FracGE(similarity, <<7, 10>>) \/ Len(segment.text) >= Len(other.text)
    THEN "other" ELSE "segment"

\* which of a duplicate pair is marked for removal: "other" (index j, the
\* scan goes on) or "segment" (index i, the scan breaks)
DuplicateToRemove(segment, other, similarity) ==
    IF segment.source = "microphone" /\ other.source = "system" THEN "other"
    ELSE IF segment.source = "system" /\ other.source = "microphone" THEN "segment"
    ELSE IF FracGT(similarity, NearExact) \/ Len(segment.text) >= Len(other.text)
    THEN "other" ELSE "segment"

WindowEnd(segment, win) ==
    IF segment.start_time = InvalidTime THEN InvalidTime
    ELSE segment.start_time + (win[1] * 1000) \div win[2]

\* variant: the scan from i stops at the first duplicate it finds
RECURSIVE InnerLoopStopAtFirst(_, _, _, _, _, _)
InnerLoopStopAtFirst(sorted, thr, win, i, j, st) ==
    IF j > Len(sorted) THEN st
    ELSE IF j \in st.removed THEN InnerLoopStopAtFirst(sorted, thr, win, i, j + 1, st)
    ELSE IF GreaterThan(sorted[j].start_time, WindowEnd(sorted[i], win)) THEN st
    ELSE LET similarity == calculateTextSimilarity(sorted[i].text, sorted[j].text)
             drop == DuplicateToRemove(sorted[i], sorted[j], similarity)
             gone == IF drop = "other" THEN j ELSE i
         IN  IF FracGE(similarity, thr)
             THEN [removed |-> st.removed \cup {gone},
                   log |-> Append(st.log, [i |-> i, j |-> j, similarity |-> similarity,
                                           gone |-> gone, removedAfter |-> st.removed \cup {gone}])]
             ELSE InnerLoopStopAtFirst(sorted, thr, win, i, j + 1, st)

\* variant: both members of a duplicate pair are marked for removal
RECURSIVE InnerLoopRemoveBoth(_, _, _, _, _, _)
InnerLoopRemoveBoth(sorted, thr, win, i, j, st) ==
    IF j > Len(sorted) THEN st
    ELSE IF j \in st.removed THEN InnerLoopRemoveBoth(sorted, thr, win, i, j + 1, st)
    ELSE IF GreaterThan(sorted[j].start_time, WindowEnd(sorted[i], win)) THEN st
    ELSE LET similarity == calculateTextSimilarity(sorted[i].text, sorted[j].text)
             drop == DuplicateToRemove(sorted[i], sorted[j], similarity)
             gone == IF drop = "other" THEN j ELSE i
         IN  IF FracGE(similarity, thr)
             THEN [removed |-> st.removed \cup {i, j},
                   log |-> Append(st.log, [i |-> i, j |-> j, similarity |-> similarity,
                                           gone |-> gone, removedAfter |-> st.removed \cup {i, j}])]
             ELSE InnerLoopRemoveBoth(sorted, thr, win, i, j + 1, st)

\* the inner for loop of _deduplicateSegments, entered at j; st.removed is
\* segmentsToRemove, st.log records every pair found to be duplicates
RECURSIVE InnerLoop(_, _, _, _, _, _)
InnerLoop(sorted, thr, win, i, j, st) ==
    IF j > Len(sorted) THEN st
    ELSE IF j \in st.removed THEN InnerLoop(sorted, thr, win, i, j + 1, st)
    ELSE IF GreaterThan(sorted[j].start_time, WindowEnd(sorted[i], win)) THEN st
    ELSE LET similarity == calculateTextSimilarity(sorted[i].text, sorted[j].text)
             drop == DuplicateToRemove(sorted[i], sorted[j], similarity)
             gone == IF drop = "other" THEN j ELSE i
             st1 == [removed |-> st.removed \cup {gone},
                     log |-> Append(st.log, [i |-> i, j |-> j, similarity |-> similarity,
                                             gone |-> gone, removedAfter |-> st.removed \cup {gone}])]
         IN  IF FracGE(similarity, thr)
             THEN IF drop = "other" THEN InnerLoop(sorted, thr, win, i, j + 1, st1) ELSE st1
             ELSE InnerLoop(sorted, thr, win, i, j + 1, st)

\* the outer for loop of _deduplicateSegments, entered at i
RECURSIVE OuterLoop(_, _, _, _, _)
OuterLoop(sorted, thr, win, i, st) ==
    IF i > Len(sorted) THEN st
    ELSE IF i \in st.removed THEN OuterLoop(sorted, thr, win, i + 1, st)
    ELSE OuterLoop(sorted, thr, win, i + 1, InnerLoop(sorted, thr, win, i, i + 1, st))

RECURSIVE FilterKept(_, _, _)
FilterKept(sorted, removed, i) ==
    IF i > Len(sorted) THEN <<>>
    ELSE (IF i \in removed THEN <<>> ELSE <<sorted[i]>>) \o FilterKept(sorted, removed, i + 1)

\* _deduplicateSegments from the point where sortedSegments is built
deduplicateSorted(sorted, thr, win) ==
    LET st == OuterLoop(sorted, thr, win, 1, [removed |-> {}, log |-> <<>>])
    IN  [sorted |-> sorted, removed |-> st.removed, log |-> st.log,
         output |-> FilterKept(sorted, st.removed, 1)]

deduplicateSegments(segs, thr, win) ==
    IF Len(segs) = 0 THEN NoDedupRun
    ELSE deduplicateSorted(SortByStart(segs), thr, win)

(***************************************************************************)
(* The inputs of the deduplication and its two runs.                       *)
(***************************************************************************)
Texts == {<<"a", "b">>, <<"A", "b", "c", "d">>, <<"a", "b", "c", "d", "e">>,
          <<"x", "b", "c", "d">>}
Sources == {"microphone", "system"}
StartTimes == {0, 3000, 6000}
SegmentChoices == [text : Texts, source : Sources, start_time : StartTimes]
DedupParams ==
    {[threshold |-> <<68, 100>>, window |-> <<45, 10>>],
     [threshold |-> <<3, 5>>, window |-> <<3, 1>>]}

HttpIdle ==
    /\ token = NoToken
    /\ hasProvider = FALSE
    /\ isTokenBeingFetched = FALSE
    /\ retries = 0
    /\ testEnv = FALSE
    /\ profile = "off"
    /\ call = [c \in CallIds |-> IdleCall]
    /\ lastSetToken = NoToken

DedupInit ==
    /\ segments \in UNION {[1..n -> SegmentChoices] : n \in 0..MaxSegments}
    /\ \E p \in DedupParams :
          /\ similarityThreshold = p.threshold
          /\ timeWindowSeconds = p.window
    /\ dedupPhase = "input"
    /\ dedupOnce = NoDedupRun
    /\ dedupTwice = NoDedupRun

\* _deduplicateSegments(segments, similarityThreshold, timeWindowSeconds)
Deduplicate ==
    /\ dedupPhase = "input"
    /\ dedupOnce' = deduplicateSegments(segments, similarityThreshold, timeWindowSeconds)
    /\ dedupPhase' = "once"
    /\ UNCHANGED <<segments, similarityThreshold, timeWindowSeconds, dedupTwice>>

\* _deduplicateSegments applied to its own output, same threshold and window
DeduplicateAgain ==
    /\ dedupPhase = "once"
    /\ dedupTwice' = deduplicateSegments(dedupOnce.output, similarityThreshold, timeWindowSeconds)
    /\ dedupPhase' = "twice"
    /\ UNCHANGED <<segments, similarityThreshold, timeWindowSeconds, dedupOnce>>

InitDedup ==
    HttpIdle /\ DedupInit /\ SimIdle /\ TranscriptIdle /\ PageIdle /\ OrgIdle
    /\ ExportIdle

NextDedup ==
    \/ Deduplicate /\ UNCHANGED nonDedupVars
    \/ DeduplicateAgain /\ UNCHANGED nonDedupVars

SpecDedup == InitDedup /\ [][NextDedup]_vars

(***************************************************************************)
(* The similarity score on its own: both arguments drawn from all strings  *)
(* of up to MaxTextLen characters, the second with upper-case letters.     *)
(***************************************************************************)
Strings(alphabet, n) == UNION {[1..k -> alphabet] : k \in 0..n}

SimInit ==
    /\ simText1 \in Strings({"a", "b"}, MaxTextLen)
    /\ simText2 \in Strings({"A", "b"}, MaxTextLen)
    /\ simPhase = "input"
    /\ simResult = <<0, 1>>

\* _calculateTextSimilarity(text1, text2)
CalculateTextSimilarity ==
    /\ simPhase = "input"
    /\ simResult' = calculateTextSimilarity(simText1, simText2)
    /\ simPhase' = "done"
    /\ UNCHANGED <<simText1, simText2>>

InitSim ==
    HttpIdle /\ DedupIdle /\ SimInit /\ TranscriptIdle /\ PageIdle /\ OrgIdle
    /\ ExportIdle

NextSim == CalculateTextSimilarity /\ UNCHANGED nonSimVars

SpecSim == InitSim /\ [][NextSim]_vars

(***************************************************************************)
(* The speaker refinement (_improveSpeakerAssignment).  A segment with     *)
(* speaker carries text, source, start_time, end_time, speaker and         *)
(* confidence (a fraction).                                                *)
(***************************************************************************)
SkipSimilarity == <<13, 20>>

\* timeDiff = (curr.start_time - prev.end_time) / 1000 compared with a
\* number of seconds given in milliseconds; NaN compares false
TimeDiffLT(curr, prev, ms) ==
    /\ curr.start_time # InvalidTime
    /\ prev.end_time # InvalidTime
    /\ curr.start_time - prev.end_time < ms
TimeDiffGT(curr, prev, ms) ==
    /\ curr.start_time # InvalidTime
    /\ prev.end_time # InvalidTime
    /\ curr.start_time - prev.end_time > ms

\* first pass, entered at index i: short segments after a very short pause
RECURSIVE FirstPass(_, _)
FirstPass(segs, i) ==
    IF i > Len(segs) THEN segs
    ELSE LET prev == segs[i - 1]
             curr == segs[i]
         IN  IF Len(curr.text) < 8 /\ TimeDiffLT(curr, prev, 500)
             THEN FirstPass([segs EXCEPT ![i].speaker = prev.speaker,
                                         ![i].confidence = <<4, 5>>], i + 1)
             ELSE FirstPass(segs, i + 1)

\* second pass, entered at index i: duplicates across sources are marked
\* "SKIP", then the pause, three-in-a-row and system-source rules
RECURSIVE SecondPass(_, _)
SecondPass(segs, i) ==
    IF i > Len(segs) THEN segs
    ELSE LET prev == segs[i - 1]
             curr == segs[i]
             differ == prev.source # curr.source
             similar == FracGT(calculateTextSimilarity(prev.text, curr.text),
                               SkipSimilarity)
         IN  IF differ /\ ~similar THEN SecondPass(segs, i + 1)
             ELSE IF differ /\ curr.source = "system" /\ prev.source = "microphone"
             THEN SecondPass([segs EXCEPT ![i].speaker = "SKIP"], i + 1)
             ELSE IF differ /\ curr.source = "microphone" /\ prev.source = "system"
             THEN SecondPass([segs EXCEPT ![i - 1].speaker = "SKIP"], i + 1)
             ELSE IF TimeDiffGT(curr, prev, 2000) THEN SecondPass(segs, i + 1)
             ELSE IF i >= 3 /\ segs[i - 2].speaker = prev.speaker
                            /\ TimeDiffLT(curr, prev, 1500)
             THEN SecondPass([segs EXCEPT ![i].speaker = prev.speaker,
                                          ![i].confidence = <<3, 4>>], i + 1)
             ELSE IF prev.source = "system" /\ curr.source = "system"
             THEN IF Len(curr.text) < 15 /\ TimeDiffLT(curr, prev, 1000)
                  THEN SecondPass([segs EXCEPT ![i].speaker = prev.speaker,
                                               ![i].confidence = <<7, 10>>], i + 1)
                  ELSE IF prev.speaker = "Them" /\ TimeDiffLT(curr, prev, 1200)
                  THEN SecondPass([segs EXCEPT ![i].speaker = "Them"], i + 1)
                  ELSE SecondPass(segs, i + 1)
             ELSE SecondPass(segs, i + 1)

\* variant: the marked segments are left in the result
RemoveSkippedNone(segs) == segs

\* sortedSegments.filter(s => s.speaker !== "SKIP")
RECURSIVE RemoveSkipped(_)
RemoveSkipped(segs) ==
    IF Len(segs) = 0 THEN <<>>
    ELSE (IF Head(segs).speaker # "SKIP" THEN <<Head(segs)>> ELSE <<>>)
            \o RemoveSkipped(Tail(segs))

\* _improveSpeakerAssignment from the point where sortedSegments is built
improveSorted(sorted) == RemoveSkipped(SecondPass(FirstPass(sorted, 2), 2))

\* sortedSegments as the two passes leave it, before the filter
markedSegments(segs) ==
    IF Len(segs) = 0 THEN <<>> ELSE SecondPass(FirstPass(SortByStart(segs), 2), 2)

improveSpeakerAssignment(segs) ==
    IF Len(segs) = 0 THEN <<>> ELSE improveSorted(SortByStart(segs))

(***************************************************************************)
(* The transcript pipeline (getDocumentTranscriptWithSpeakers).            *)
(***************************************************************************)
EpochT0 == "1970-01-01T00:00:00.000Z"
EpochT3 == "1970-01-01T00:00:03.000Z"
EpochT4 == "1970-01-01T00:00:04.000Z"

\* new Date(text).getTime()
DateGetTime(text) ==
    CASE text = EpochT0 -> 0
      [] text = EpochT3 -> 3000
      [] text = EpochT4 -> 4000
      [] OTHER -> InvalidTime

SpeakerOfSource(source) ==
    IF source = "microphone" THEN "Me"
    ELSE IF source = "system" THEN "Them"
    ELSE "Unknown"

\* the object built for one fetched segment
WithSpeaker(segment) ==
    [text |-> segment.text,
     source |-> segment.source,
     start_time |-> DateGetTime(segment.start_timestamp),
     end_time |-> DateGetTime(segment.end_timestamp),
     speaker |-> SpeakerOfSource(segment.source),
     confidence |-> <<1, 1>>]

Reorderings(seq) ==
    {[k \in 1..Len(seq) |-> seq[f[k]]] :
        f \in {g \in [1..Len(seq) -> 1..Len(seq)] :
                 \A a, b \in 1..Len(seq) : a # b => g[a] # g[b]}}

\* the orders Array.prototype.sort can leave: the stable ascending order
\* when every start_time is valid; with an Invalid Date the comparator
\* returns NaN and the order is implementation-defined
SortOutcomes(segs) ==
    IF \E k \in 1..Len(segs) : segs[k].start_time = InvalidTime
    THEN Reorderings(segs)
    ELSE {SortByStart(segs)}

ReturnSegments(v) == [kind |-> "return", value |-> v, error |-> Undefined]
ThrowFromFetch(e) == [kind |-> "throw", value |-> <<>>, error |-> e]

FetchedTexts == {<<"a", "b">>, <<"A", "b", "c", "d">>}
FetchedSources == {"microphone", "system", ""}
\* start and end timestamp of a fetched segment: well-formed, start
\* missing, end unparseable
FetchedTimestamps ==
    {<<EpochT0, EpochT4>>, <<EpochT3, EpochT4>>, <<"", EpochT4>>,
     <<EpochT0, "not-a-date">>}
FetchedChoices ==
    {[text |-> t, source |-> src, start_timestamp |-> ts[1],
      end_timestamp |-> ts[2]] :
        t \in FetchedTexts, src \in FetchedSources, ts \in FetchedTimestamps}
\* the default similarityThreshold 0.68 and timeWindowSeconds 4.5
DefaultParams == [threshold |-> <<68, 100>>, window |-> <<45, 10>>]

LongText == [k \in 1..15 |-> "x"]
RefineTexts == {<<"a", "b">>, LongText}
Speakers == {"Me", "Them", "SKIP"}
RefineStartTimes == {0, 1000, 3000}
SegmentDurationMs == 600
RefineChoices ==
    {[text |-> t, source |-> src, start_time |-> st,
      end_time |-> st + SegmentDurationMs, speaker |-> sp, confidence |-> <<1, 1>>] :
        t \in RefineTexts, src \in Sources, st \in RefineStartTimes, sp \in Speakers}

PipelineInit ==
    /\ tMode = "pipeline"
    /\ \E n \in 0..MaxFetched : fetched \in [1..n -> FetchedChoices]
    /\ args \in {[deduplicate |-> d, similarityThreshold |-> p.threshold,
                   timeWindowSeconds |-> p.window] :
                     d \in BOOLEAN, p \in {DefaultParams}}
    /\ refineInput = <<>>

\* the argument is drawn in ascending order of start_time, the order in
\* which the function scans it after its sort
RefineInit ==
    /\ tMode = "refine"
    /\ fetched = <<>>
    /\ args = NoArgs
    /\ \E n \in 0..MaxSegments : refineInput \in [1..n -> RefineChoices]
    /\ \A k \in 1..(Len(refineInput) - 1) :
          refineInput[k].start_time <= refineInput[k + 1].start_time

TranscriptInit ==
    /\ PipelineInit \/ RefineInit
    /\ tPhase = "input"
    /\ tResult = NoTranscript
    /\ tTrace = NoTrace

\* getDocumentTranscriptWithSpeakers(documentId, deduplicate,
\* similarityThreshold, timeWindowSeconds), both fetches resolved
GetDocumentTranscriptWithSpeakers ==
    /\ tMode = "pipeline"
    /\ tPhase = "input"
    /\ LET segmentsWithSpeakers == [k \in 1..Len(fetched) |-> WithSpeaker(fetched[k])]
       IN  \E s1 \in SortOutcomes(segmentsWithSpeakers) :
              IF args.deduplicate
              THEN \E s2 \in SortOutcomes(s1) :
                      LET deduplicatedSegments ==
                              IF Len(s1) = 0 THEN <<>>
                              ELSE deduplicateSorted(s2, args.similarityThreshold,
                                                     args.timeWindowSeconds).output
                      IN  \E s3 \in SortOutcomes(deduplicatedSegments) :
                             /\ tResult' = ReturnSegments(improveSorted(s3))
                             /\ tTrace' = [built |-> segmentsWithSpeakers,
                                           ran |-> {"sort", "deduplicate", "refine"}]
              ELSE /\ tResult' = ReturnSegments(s1)
                   /\ tTrace' = [built |-> segmentsWithSpeakers, ran |-> {"sort"}]
    /\ tPhase' = "done"
    /\ UNCHANGED <<tMode, fetched, args, refineInput>>

\* getDocumentTranscript or getDocumentMetadata rejects: the error of the
\* transport propagates
GetDocumentTranscriptRejects ==
    /\ tMode = "pipeline"
    /\ tPhase = "input"
    /\ \E e \in {NetworkError, TimeoutError} : tResult' = ThrowFromFetch(e)
    /\ tPhase' = "done"
    /\ UNCHANGED <<tMode, fetched, args, refineInput, tTrace>>

\* _improveSpeakerAssignment(segments), called on its own
ImproveSpeakerAssignment ==
    /\ tMode = "refine"
    /\ tPhase = "input"
    /\ tResult' = ReturnSegments(improveSpeakerAssignment(refineInput))
    /\ tTrace' = [built |-> markedSegments(refineInput), ran |-> {"refine"}]
    /\ tPhase' = "done"
    /\ UNCHANGED <<tMode, fetched, args, refineInput>>

InitTranscript ==
    HttpIdle /\ DedupIdle /\ SimIdle /\ TranscriptInit /\ PageIdle /\ OrgIdle
    /\ ExportIdle

NextTranscript ==
    \/ GetDocumentTranscriptWithSpeakers /\ UNCHANGED nonTranscriptVars
    \/ GetDocumentTranscriptRejects /\ UNCHANGED nonTranscriptVars
    \/ ImproveSpeakerAssignment /\ UNCHANGED nonTranscriptVars

SpecTranscript == InitTranscript /\ [][NextTranscript]_vars

(***************************************************************************)
(* The pagination iterator (paginate, src/pagination.ts) driven by a       *)
(* caller that asks for one item at a time, as for await does.             *)
(***************************************************************************)
Cursors == {"c1", "c2"}
PageItems == {<<>>, <<"i1">>, <<"i1", "i2">>, <<"i2", "i1">>}
PageChoices == [items : PageItems, next : Cursors \cup {NoCursor, ""}]

\* while (cursor): undefined and the empty string are falsy
Truthy(cursor) == cursor # NoCursor /\ cursor # ""

\* variant: a page without items ends the sequence
AdvanceStopOnEmptyPage(g, items, index, next) ==
    IF index < Len(items)
    THEN [g EXCEPT !.pc = "suspendedYield", !.items = items, !.index = index + 1,
                   !.next = next, !.requested = FALSE]
    ELSE IF Truthy(next) /\ Len(items) > 0
    THEN [g EXCEPT !.pc = "awaiting", !.items = items, !.index = index,
                   !.next = next, !.cursor = next, !.outstanding = 1]
    ELSE [g EXCEPT !.pc = "completed", !.items = items, !.index = index,
                   !.next = next, !.cursor = next, !.requested = FALSE]

\* variant: the next page is requested as soon as the last item of a page
\* is handed over
AdvanceEager(g, items, index, next) ==
    IF index < Len(items)
    THEN [g EXCEPT !.pc = "suspendedYield", !.items = items, !.index = index + 1,
                   !.next = next, !.requested = FALSE,
                   !.outstanding = IF index + 1 = Len(items) /\ Truthy(next)
                                   THEN 1 ELSE 0]
    ELSE IF Truthy(next)
    THEN [g EXCEPT !.pc = "awaiting", !.items = items, !.index = index,
                   !.next = next, !.cursor = next, !.outstanding = 1]
    ELSE [g EXCEPT !.pc = "completed", !.items = items, !.index = index,
                   !.next = next, !.cursor = next, !.requested = FALSE]

\* the generator runs from inside the for loop over items, index items
\* already yielded, to where it next suspends: at the yield of the next
\* item, at the await of fetchPage(cursor) after cursor = next, or at its end
Advance(g, items, index, next) ==
    IF index < Len(items)
    THEN [g EXCEPT !.pc = "suspendedYield", !.items = items, !.index = index + 1,
                   !.next = next, !.requested = FALSE]
    ELSE IF Truthy(next)
    THEN [g EXCEPT !.pc = "awaiting", !.items = items, !.index = index,
                   !.next = next, !.cursor = next, !.outstanding = 1]
    ELSE [g EXCEPT !.pc = "completed", !.items = items, !.index = index,
                   !.next = next, !.cursor = next, !.requested = FALSE]

\* what a step of the generator adds to the items handed over and to the
\* fetchPage calls made
YieldedBy(before, after) ==
    IF after.pc = "suspendedYield" THEN <<after.items[after.index]>> ELSE <<>>
CalledBy(before, after) ==
    IF after.outstanding > before.outstanding THEN <<after.next>> ELSE <<>>

PageInit ==
    /\ gen = NewGenerator("suspendedStart")
    /\ yielded = <<>>
    /\ fetchCalls = <<>>
    /\ pages = <<>>

\* the caller asks for the first item: the body starts and awaits
\* fetchPage(undefined)
FirstNext ==
    /\ gen.pc = "suspendedStart"
    /\ gen' = [gen EXCEPT !.pc = "awaiting", !.requested = TRUE, !.outstanding = 1]
    /\ fetchCalls' = Append(fetchCalls, gen.cursor)
    /\ UNCHANGED <<yielded, pages>>

\* the caller asks for a further item: the generator resumes after its yield
ConsumerNext ==
    /\ gen.pc = "suspendedYield"
    /\ LET resumed == [gen EXCEPT !.requested = TRUE]
           after == Advance(resumed, gen.items, gen.index, gen.next)
       IN  /\ gen' = after
           /\ yielded' = yielded \o YieldedBy(resumed, after)
           /\ fetchCalls' = fetchCalls \o CalledBy(resumed, after)
    /\ UNCHANGED pages

\* fetchPage resolves with a page; the server has at most MaxPages pages
FetchPageResolves(page) ==
    /\ gen.pc = "awaiting"
    /\ Len(pages) + 1 < MaxPages \/ ~Truthy(page.next)
    /\ LET settled == [gen EXCEPT !.outstanding = 0]
           after == Advance(settled, page.items, 0, page.next)
       IN  /\ gen' = after
           /\ yielded' = yielded \o YieldedBy(settled, after)
           /\ fetchCalls' = fetchCalls \o CalledBy(settled, after)
    /\ pages' = Append(pages, page)

\* fetchPage rejects: the generator throws to the caller and is finished
FetchPageRejects ==
    /\ gen.pc = "awaiting"
    /\ gen' = [gen EXCEPT !.pc = "threw", !.outstanding = 0, !.requested = FALSE]
    /\ UNCHANGED <<yielded, fetchCalls, pages>>

\* the caller stops iterating (break): return() finishes the generator
ConsumerReturn ==
    /\ gen.pc \in {"suspendedStart", "suspendedYield"}
    /\ gen' = [gen EXCEPT !.pc = "returned"]
    /\ UNCHANGED <<yielded, fetchCalls, pages>>

InitPage ==
    HttpIdle /\ DedupIdle /\ SimIdle /\ TranscriptIdle /\ PageInit /\ OrgIdle
    /\ ExportIdle

NextPage ==
    \/ FirstNext /\ UNCHANGED nonPageVars
    \/ ConsumerNext /\ UNCHANGED nonPageVars
    \/ \E page \in PageChoices : FetchPageResolves(page) /\ UNCHANGED nonPageVars
    \/ FetchPageRejects /\ UNCHANGED nonPageVars
    \/ ConsumerReturn /\ UNCHANGED nonPageVars

SpecPage == InitPage /\ [][NextPage]_vars

(***************************************************************************)
(* The organization detector (src/src/organization-detector.ts).  Strings  *)
(* are sequences of characters; a strategy gives an organization name,     *)
(* NoMatch (undefined) or Raised (a TypeError thrown inside it).           *)
(***************************************************************************)
NoMatch == "(undefined)"
Raised == "TypeError"

\* config.organizations, in configured order
Organizations ==
    <<[name |-> "OrgA",
       titleKeywords |-> <<(<<"a">>)>>,
       emailDomains |-> <<(<<"c">>)>>,
       emailAddresses |-> <<>>,
       companyNames |-> <<(<<"E">>)>>],
      [name |-> "OrgB",
       titleKeywords |-> <<(<<"B">>)>>,
       emailDomains |-> <<(<<"d">>)>>,
       emailAddresses |-> <<(<<"b", "@", "c">>)>>,
       companyNames |-> <<>>]>>

\* for (const org of organizations) if (test) return org.name, where
\* tests[k] is the outcome of the test for the k-th organization
FirstOrgWhere(tests) ==
    IF \E k \in 1..Len(Organizations) : tests[k]
    THEN Organizations[CHOOSE k \in 1..Len(Organizations) :
                          /\ tests[k]
                          /\ \A m \in 1..(k - 1) : ~tests[m]].name
    ELSE NoMatch

OrgIndexes == 1..Len(Organizations)

detectFromTitle(title) ==
    IF Len(title) = 0 THEN NoMatch
    ELSE FirstOrgWhere([o \in OrgIndexes |->
            \E k \in 1..Len(Organizations[o].titleKeywords) :
                includes(toLowerCase(title),
                         toLowerCase(Organizations[o].titleKeywords[k]))])

HasAt(text) == \E k \in 1..Len(text) : text[k] = "@"
FirstAt(text) == CHOOSE k \in 1..Len(text) :
                    text[k] = "@" /\ \A m \in 1..(k - 1) : text[m] # "@"

\* email.split('@')[1] of a text that holds an '@'
SplitAtSecond(text) ==
    LET rest == SubSeq(text, FirstAt(text) + 1, Len(text))
    IN  IF HasAt(rest) THEN SubSeq(rest, 1, FirstAt(rest) - 1) ELSE rest

\* org.emailDomains.some(d => domain.includes(d.toLowerCase()))
DomainMatches(org, domain) ==
    \E k \in 1..Len(org.emailDomains) :
        includes(domain, toLowerCase(org.emailDomains[k]))

\* domain.includes is reached: some organization has an e-mail domain
DomainIsRead == \E k \in 1..Len(Organizations) : Len(Organizations[k].emailDomains) > 0

\* the creator e-mail block of both strategies: exact address, then domain;
\* without an '@' the domain is undefined and domain.includes raises
detectFromCreatorEmail(email) ==
    LET creatorEmail == toLowerCase(email)
        byAddress == FirstOrgWhere([o \in OrgIndexes |->
                        \E k \in 1..Len(Organizations[o].emailAddresses) :
                            toLowerCase(Organizations[o].emailAddresses[k])
                                = creatorEmail])
    IN  IF byAddress # NoMatch THEN byAddress
        ELSE IF ~HasAt(creatorEmail) THEN (IF DomainIsRead THEN Raised ELSE NoMatch)
        ELSE FirstOrgWhere([o \in OrgIndexes |->
                DomainMatches(Organizations[o], SplitAtSecond(creatorEmail))])

\* domainCounts[org.name] = (domainCounts[org.name] || 0) + 1, the keys
\* kept in insertion order
Increment(counts, name) ==
    IF \E k \in 1..Len(counts) : counts[k].name = name
    THEN [k \in 1..Len(counts) |->
            IF counts[k].name = name
            THEN [counts[k] EXCEPT !.count = counts[k].count + 1] ELSE counts[k]]
    ELSE Append(counts, [name |-> name, count |-> 1])

\* the loop over organizations for one attendee domain, entered at index k
RECURSIVE CountOrganizations(_, _, _)
CountOrganizations(domain, k, counts) ==
    IF k > Len(Organizations) THEN counts
    ELSE CountOrganizations(domain, k + 1,
            IF DomainMatches(Organizations[k], domain)
            THEN Increment(counts, Organizations[k].name) ELSE counts)

\* the loop over attendees; acc.raised when an e-mail without '@' was read
RECURSIVE CountAttendees(_, _)
CountAttendees(attendees, acc) ==
    IF Len(attendees) = 0 \/ acc.raised THEN acc
    ELSE LET email == toLowerCase(Head(attendees))
         IN  IF Len(email) = 0 THEN CountAttendees(Tail(attendees), acc)
             ELSE IF ~HasAt(email)
             THEN (IF DomainIsRead THEN [acc EXCEPT !.raised = TRUE]
                   ELSE CountAttendees(Tail(attendees), acc))
             ELSE CountAttendees(Tail(attendees),
                     [acc EXCEPT !.counts =
                         CountOrganizations(SplitAtSecond(email), 1, acc.counts)])

\* the entry with the highest count, the first such in Object.entries order
PrimaryOrg(counts) ==
    IF Len(counts) = 0 THEN NoMatch
    ELSE counts[CHOOSE k \in 1..Len(counts) :
                    /\ \A m \in 1..Len(counts) : counts[m].count <= counts[k].count
                    /\ \A m \in 1..(k - 1) : counts[m].count < counts[k].count].name

detectFromAttendees(attendees) ==
    IF Len(attendees) = 0 THEN NoMatch
    ELSE LET acc == CountAttendees(attendees, [raised |-> FALSE, counts |-> <<>>])
         IN  IF acc.raised THEN Raised ELSE PrimaryOrg(acc.counts)

detectFromCalendarData(calendarEvent) ==
    IF ~calendarEvent.present THEN NoMatch
    ELSE LET byCreator == IF Len(calendarEvent.creatorEmail) > 0
                          THEN detectFromCreatorEmail(calendarEvent.creatorEmail)
                          ELSE NoMatch
         IN  IF byCreator # NoMatch THEN byCreator
             ELSE detectFromAttendees(calendarEvent.attendees)

detectFromPeopleData(people) ==
    IF ~people.present THEN NoMatch
    ELSE LET companyName == toLowerCase(people.companyName)
             byCompany ==
                 IF Len(companyName) = 0 THEN NoMatch
                 ELSE FirstOrgWhere([o \in OrgIndexes |->
                         \E k \in 1..Len(Organizations[o].companyNames) :
                             includes(companyName,
                                      toLowerCase(Organizations[o].companyNames[k]))])
             byCreator == IF Len(people.creatorEmail) > 0
                          THEN detectFromCreatorEmail(people.creatorEmail)
                          ELSE NoMatch
         IN  IF byCompany # NoMatch THEN byCompany
             ELSE IF byCreator # NoMatch THEN byCreator
             ELSE detectFromAttendees(people.attendees)

ReturnLabel(name) == [kind |-> "return", value |-> name]
ThrowTypeError == [kind |-> "throw", value |-> Raised]

\* the loop over detectionMethods from the strategy found: its label when
\* it matched, its error when it raised, else what the rest gives
Outcome(found, rest) ==
    IF found = Raised THEN ThrowTypeError
    ELSE IF found # NoMatch THEN ReturnLabel(found)
    ELSE rest

\* variant: the title strategy runs whatever useTitleKeywords says
detectOrganizationTitleAlways(config, m) ==
    IF m.isNull THEN ReturnLabel(config.defaultOrganization)
    ELSE Outcome(IF config.useCalendarData
                 THEN detectFromCalendarData(m.google_calendar_event) ELSE NoMatch,
         Outcome(detectFromTitle(m.title),
         Outcome(IF config.usePeopleData
                 THEN detectFromPeopleData(m.people) ELSE NoMatch,
                 ReturnLabel(config.defaultOrganization))))

detectOrganization(config, m) ==
    IF m.isNull THEN ReturnLabel(config.defaultOrganization)
    ELSE Outcome(IF config.useCalendarData
                 THEN detectFromCalendarData(m.google_calendar_event) ELSE NoMatch,
         Outcome(IF config.useTitleKeywords
                 THEN detectFromTitle(m.title) ELSE NoMatch,
         Outcome(IF config.usePeopleData
                 THEN detectFromPeopleData(m.people) ELSE NoMatch,
                 ReturnLabel(config.defaultOrganization))))

(***************************************************************************)
(* The inputs of the detector.                                             *)
(***************************************************************************)
Titles == {<<>>, <<"x", "A">>, <<"b">>, <<"x">>}
CreatorEmails ==
    {<<>>, <<"x", "@", "c">>, <<"B", "@", "c">>, <<"x", "@", "e">>, <<"x">>}
AttendeeEmails == {<<"x", "@", "c">>, <<"x", "@", "D">>, <<"x">>}
CalendarEvents ==
    {NoEvent} \cup
    {[present |-> TRUE, creatorEmail |-> c, attendees |-> a] :
        c \in CreatorEmails,
        a \in UNION {[1..n -> AttendeeEmails] : n \in 0..MaxAttendees}}
PeopleData ==
    {NoPeople} \cup
    {[present |-> TRUE, companyName |-> n, creatorEmail |-> c, attendees |-> a] :
        n \in {<<>>, <<"e">>},
        c \in {<<>>, <<"x", "@", "D">>, <<"x">>},
        a \in {<<>>, <<(<<"x", "@", "c">>)>>}}
Meetings ==
    {NullMeeting} \cup
    [isNull : {FALSE}, title : Titles, google_calendar_event : CalendarEvents,
     people : PeopleData]
Configs ==
    [useCalendarData : BOOLEAN, useTitleKeywords : BOOLEAN,
     usePeopleData : BOOLEAN, defaultOrganization : {"Unknown"}]

OrgInit ==
    /\ orgConfig \in Configs
    /\ meeting \in Meetings
    /\ orgPhase = "input"
    /\ orgResult = NoDetection

\* detector.detectOrganization(meeting)
DetectOrganization ==
    /\ orgPhase = "input"
    /\ orgResult' = detectOrganization(orgConfig, meeting)
    /\ orgPhase' = "done"
    /\ UNCHANGED <<orgConfig, meeting>>

InitOrg ==
    HttpIdle /\ DedupIdle /\ SimIdle /\ TranscriptIdle /\ PageIdle /\ OrgInit
    /\ ExportIdle

NextOrg == DetectOrganization /\ UNCHANGED nonOrgVars

SpecOrg == InitOrg /\ [][NextOrg]_vars

(***************************************************************************)
(* Claims about the deduplication.                                         *)
(***************************************************************************)
DedupRuns ==
    (IF dedupPhase \in {"once", "twice"} THEN {dedupOnce} ELSE {})
        \cup (IF dedupPhase = "twice" THEN {dedupTwice} ELSE {})

\* C8: deduplication is idempotent: applied to its own output with the
\* same threshold and window it returns that output unchanged.
C8_DedupIdempotent ==
    dedupPhase = "twice" => dedupTwice.output = dedupOnce.output

C8_Witness ==
    /\ dedupPhase = "twice"
    /\ Len(segments) = 3
    /\ Len(dedupOnce.output) = 2
    /\ dedupTwice.output = dedupOnce.output
    /\ dedupOnce.output[2].start_time <= dedupOnce.output[1].start_time + 3000

MixedPair(a, b) ==
    \/ a.source = "microphone" /\ b.source = "system"
    \/ a.source = "system" /\ b.source = "microphone"

\* C9: for every microphone/system pair found to be duplicates, the one
\* marked for removal is the system segment, whichever comes first; the
\* microphone segment is not marked by that comparison and the system
\* segment is absent from the result.
C9_MicrophonePreferred ==
    \A run \in DedupRuns :
        \A k \in 1..Len(run.log) :
            LET e == run.log[k]
                keep == IF e.gone = e.i THEN e.j ELSE e.i
            IN  MixedPair(run.sorted[e.i], run.sorted[e.j])
                    => /\ run.sorted[e.gone].source = "system"
                       /\ run.sorted[keep].source = "microphone"
                       /\ keep \notin e.removedAfter
                       /\ e.gone \in run.removed

C9_Witness ==
    /\ dedupPhase = "once"
    /\ \E k \in 1..Len(dedupOnce.log) :
          LET e == dedupOnce.log[k]
          IN  /\ dedupOnce.sorted[e.i].source = "system"
              /\ dedupOnce.sorted[e.j].source = "microphone"
              /\ dedupOnce.sorted[e.i].start_time < dedupOnce.sorted[e.j].start_time
              /\ e.gone = e.i

\* C10 as stated: of two duplicates of the same source the one with the
\* longer text is kept, the earlier one when the lengths are equal.
C10_LongerTextKept ==
    \A run \in DedupRuns :
        \A k \in 1..Len(run.log) :
            LET e == run.log[k]
                a == run.sorted[e.i]
                b == run.sorted[e.j]
            IN  a.source = b.source
                    => e.gone = (IF Len(b.text) > Len(a.text) THEN e.i ELSE e.j)

\* C10 amended: of two duplicates of the same source the earlier one is
\* kept when the score exceeds 0.95 or its text is at least as long as the
\* later one's; otherwise the later, longer one is kept.
C10_LongerTextKeptUnlessNearExact ==
    \A run \in DedupRuns :
        \A k \in 1..Len(run.log) :
            LET e == run.log[k]
                a == run.sorted[e.i]
                b == run.sorted[e.j]
            IN  a.source = b.source
                    => IF FracGT(e.similarity, <<19, 20>>)
                       THEN e.gone = e.j
                       ELSE e.gone = (IF Len(b.text) > Len(a.text) THEN e.i ELSE e.j)

C10_Witness ==
    /\ dedupPhase = "once"
    /\ \E k \in 1..Len(dedupOnce.log) :
          LET e == dedupOnce.log[k]
              a == dedupOnce.sorted[e.i]
              b == dedupOnce.sorted[e.j]
          IN  /\ a.source = b.source
              /\ Len(a.text) < Len(b.text)
              /\ ~FracGT(e.similarity, <<19, 20>>)
              /\ e.gone = e.i

RECURSIVE IsSubsequence(_, _)
IsSubsequence(sub, seq) ==
    IF Len(sub) = 0 THEN TRUE
    ELSE IF Len(seq) = 0 THEN FALSE
    ELSE IF Head(sub) = Head(seq) THEN IsSubsequence(Tail(sub), Tail(seq))
    ELSE IsSubsequence(sub, Tail(seq))

IsAscending(segs) ==
    \A k \in 1..(Len(segs) - 1) : segs[k].start_time <= segs[k + 1].start_time

\* each run of the deduplication paired with the argument it was given
DedupRunInputs ==
    (IF dedupPhase \in {"once", "twice"} THEN {<<segments, dedupOnce>>} ELSE {})
        \cup (IF dedupPhase = "twice" THEN {<<dedupOnce.output, dedupTwice>>} ELSE {})

\* C11: the result of the deduplication is a subsequence of its argument
\* sorted ascending by start_time (ties in argument order), also for an
\* unsorted argument: the result is itself ascending, and every kept
\* segment is an unaltered segment of the argument, none added or repeated.
C11_OutputIsSubsequenceOfSorted ==
    \A p \in DedupRunInputs :
        /\ IsSubsequence(p[2].output, SortByStart(p[1]))
        /\ IsAscending(p[2].output)
        /\ Len(p[2].output) <= Len(p[1])
        /\ \A k \in 1..Len(p[2].output) :
              \E n \in 1..Len(p[1]) : p[2].output[k] = p[1][n]

C11_Witness ==
    /\ dedupPhase = "once"
    /\ Len(segments) = 3
    /\ segments[1].start_time > segments[2].start_time
    /\ segments[2].start_time > segments[3].start_time
    /\ Len(dedupOnce.output) = 2
    /\ dedupOnce.output[1] = segments[3]

(***************************************************************************)
(* Claims about the similarity score.                                      *)
(***************************************************************************)
\* C12: the similarity of any two strings lies in the closed interval
\* [0, 1], also when one string contains the other.
C12_SimilarityInUnitInterval ==
    simPhase = "done"
        => /\ FracGE(simResult, <<0, 1>>)
           /\ FracGE(<<1, 1>>, simResult)

(***************************************************************************)
(* Claims about the refinement and the transcript pipeline.                *)
(***************************************************************************)
FetchRejected ==
    tResult.kind = "throw" /\ tResult.error \in {NetworkError, TimeoutError}

\* C13: the result of _improveSpeakerAssignment, and so of
\* getDocumentTranscriptWithSpeakers with deduplicate = true, holds no
\* segment whose speaker is "SKIP", also when segments of the argument
\* already carry that label.
C13_NoSkipInOutput ==
    (/\ tPhase = "done"
     /\ tResult.kind = "return"
     /\ tMode = "refine" \/ (tMode = "pipeline" /\ args.deduplicate))
        => \A k \in 1..Len(tResult.value) : tResult.value[k].speaker # "SKIP"

C13_Witness ==
    /\ tMode = "refine"
    /\ tPhase = "done"
    /\ Len(refineInput) = 3
    /\ refineInput[1].speaker = "SKIP"
    /\ refineInput[2].speaker = "Me" /\ refineInput[2].source = "microphone"
    /\ refineInput[3].speaker = "Them" /\ refineInput[3].source = "system"
    /\ refineInput[2].start_time = 1000
    /\ refineInput[3].start_time = 3000
    /\ refineInput[2].text = refineInput[3].text
    /\ Len(tResult.value) = 1
    /\ tResult.value[1].speaker = "Me"

\* the label the first pass gives a fetched segment, by its source
LabelledFetched(segment) ==
    [text |-> segment.text,
     source |-> segment.source,
     start_time |-> DateGetTime(segment.start_timestamp),
     end_time |-> DateGetTime(segment.end_timestamp),
     speaker |-> CASE segment.source = "microphone" -> "Me"
                   [] segment.source = "system" -> "Them"
                   [] OTHER -> "Unknown",
     confidence |-> <<1, 1>>]

\* C14: with deduplicate = false the pipeline returns one segment per
\* fetched segment, ascending by start time, labelled "Me", "Them" or
\* "Unknown" by source, with confidence 1.0, none changed or removed.
C14_NoDedupReturnsLabelledSorted ==
    (/\ tMode = "pipeline"
     /\ tPhase = "done"
     /\ ~args.deduplicate
     /\ ~FetchRejected)
        => /\ tResult.kind = "return"
           /\ Len(tResult.value) = Len(fetched)
           /\ tResult.value \in Reorderings([k \in 1..Len(fetched) |->
                                                LabelledFetched(fetched[k])])
           /\ \A k \in 1..(Len(tResult.value) - 1) :
                 /\ tResult.value[k].start_time # InvalidTime
                 /\ tResult.value[k + 1].start_time # InvalidTime
                 /\ tResult.value[k].start_time <= tResult.value[k + 1].start_time

MalformedTimestamp(segment) ==
    \/ DateGetTime(segment.start_timestamp) = InvalidTime
    \/ DateGetTime(segment.end_timestamp) = InvalidTime

\* C15: when a fetched segment has a malformed start or end timestamp the
\* pipeline fails with an error: it builds no segment whose start_time or
\* end_time is NaN and runs no sort, deduplication or refinement.
C15_MalformedTimestampFailsFast ==
    (/\ tMode = "pipeline"
     /\ tPhase = "done"
     /\ ~FetchRejected
     /\ \E k \in 1..Len(fetched) : MalformedTimestamp(fetched[k]))
        => /\ tResult.kind = "throw"
           /\ tTrace.ran = {}
           /\ \A k \in 1..Len(tTrace.built) :
                 /\ tTrace.built[k].start_time # InvalidTime
                 /\ tTrace.built[k].end_time # InvalidTime

(***************************************************************************)
(* Claims about the pagination iterator.                                   *)
(***************************************************************************)
RECURSIVE ConcatItems(_)
ConcatItems(ps) ==
    IF Len(ps) = 0 THEN <<>> ELSE Head(ps).items \o ConcatItems(Tail(ps))

IsPrefix(a, b) == Len(a) <= Len(b) /\ SubSeq(b, 1, Len(a)) = a

\* the calls follow the cursors and the items handed over are, in order,
\* the items of the pages fetched
CursorsAndItemsInOrder ==
    /\ Len(fetchCalls) >= 1 => fetchCalls[1] = NoCursor
    /\ \A k \in 2..Len(fetchCalls) : fetchCalls[k] = pages[k - 1].next
    /\ IsPrefix(yielded, ConcatItems(pages))
    /\ gen.pc \in {"awaiting", "completed"} => yielded = ConcatItems(pages)

\* C16 as stated: the first page is fetched with no cursor, each later page
\* with the next of the page before it; the items handed over are the
\* concatenation of the pages' items; the sequence ends right after the
\* first page whose next is absent, and only there.
C16_YieldsPagesUntilNextAbsent ==
    /\ CursorsAndItemsInOrder
    /\ \A k \in 1..Len(pages) : pages[k].next = NoCursor => Len(fetchCalls) = k
    /\ gen.pc = "completed" => pages[Len(pages)].next = NoCursor

\* C16 amended: as above, with the sequence ending right after the first
\* page whose next is absent or the empty string, and only there; a page
\* without items but with a non-empty next does not end it.
C16_YieldsPagesUntilNextFalsy ==
    /\ CursorsAndItemsInOrder
    /\ \A k \in 1..Len(pages) : ~Truthy(pages[k].next) => Len(fetchCalls) = k
    /\ gen.pc = "completed" => ~Truthy(pages[Len(pages)].next)

C16_Witness ==
    /\ gen.pc = "completed"
    /\ Len(pages) = 3
    /\ pages[1] = [items |-> <<>>, next |-> "c1"]
    /\ pages[2] = [items |-> <<"i1", "i2">>, next |-> "c2"]
    /\ pages[3] = [items |-> <<"i2", "i1">>, next |-> ""]
    /\ yielded = <<"i1", "i2", "i2", "i1">>
    /\ fetchCalls = <<NoCursor, "c1", "c2">>

\* C17: pagination is lazy and serial.  At most one fetchPage call is
\* unsettled, and only while a request of the caller is pending; when page
\* n + 1 is asked for, every item of pages 1..n has been handed over; and
\* once the caller stops iterating no further page is fetched.
C17_LazyAndSerial ==
    /\ [](/\ gen.outstanding \in {0, 1}
          /\ gen.outstanding = 1 => gen.requested /\ gen.pc = "awaiting"
          /\ Len(fetchCalls) >= 2 =>
                IsPrefix(ConcatItems(SubSeq(pages, 1, Len(fetchCalls) - 1)), yielded)
          /\ gen.pc = "suspendedYield" => Len(fetchCalls) = Len(pages)
          /\ gen.pc = "returned" => Len(fetchCalls) = Len(pages))
    /\ [][gen.pc = "returned" => fetchCalls' = fetchCalls]_vars

C17_Witness ==
    /\ gen.pc = "returned"
    /\ Len(pages) = 2
    /\ pages[1] = [items |-> <<"i1">>, next |-> "c1"]
    /\ pages[2] = [items |-> <<"i1", "i2">>, next |-> "c2"]
    /\ yielded = <<"i1", "i1">>
    /\ fetchCalls = <<NoCursor, "c1">>

(***************************************************************************)
(* Claims about the organization detector.                                 *)
(***************************************************************************)
IsLabel(found) == found # NoMatch /\ found # Raised

\* what each strategy finds in the meeting when it is enabled
CalendarFinds ==
    IF orgConfig.useCalendarData
    THEN detectFromCalendarData(meeting.google_calendar_event) ELSE NoMatch
TitleFinds ==
    IF orgConfig.useTitleKeywords THEN detectFromTitle(meeting.title) ELSE NoMatch
PeopleFinds ==
    IF orgConfig.usePeopleData THEN detectFromPeopleData(meeting.people) ELSE NoMatch

\* C18: the result is the label of the first enabled strategy that matches,
\* in the order calendar data, title keywords, people data: a calendar
\* match wins over title and people matches, a title match over a people
\* match.
C18_FirstEnabledMatchWins ==
    (orgPhase = "done" /\ ~meeting.isNull)
        => /\ IsLabel(CalendarFinds) => orgResult = ReturnLabel(CalendarFinds)
           /\ (~IsLabel(CalendarFinds) /\ IsLabel(TitleFinds))
                 => orgResult = ReturnLabel(TitleFinds)
           /\ (~IsLabel(CalendarFinds) /\ ~IsLabel(TitleFinds) /\ IsLabel(PeopleFinds))
                 => orgResult = ReturnLabel(PeopleFinds)

\* C19: a disabled strategy never influences the result: with a toggle set
\* to false, every meeting that differs from the given one only in the data
\* that strategy reads yields the same outcome.
C19_DisabledStrategyIgnored ==
    (orgPhase = "done" /\ ~meeting.isNull)
        => /\ ~orgConfig.useCalendarData =>
                 \A ev \in CalendarEvents :
                     detectOrganization(orgConfig,
                         [meeting EXCEPT !.google_calendar_event = ev]) = orgResult
           /\ ~orgConfig.useTitleKeywords =>
                 \A t \in Titles :
                     detectOrganization(orgConfig, [meeting EXCEPT !.title = t])
                         = orgResult
           /\ ~orgConfig.usePeopleData =>
                 \A pp \in PeopleData :
                     detectOrganization(orgConfig, [meeting EXCEPT !.people = pp])
                         = orgResult

C19_Witness ==
    /\ orgPhase = "done"
    /\ ~meeting.isNull
    /\ ~orgConfig.useCalendarData
    /\ orgConfig.useTitleKeywords
    /\ detectFromCalendarData(meeting.google_calendar_event) = "OrgB"
    /\ detectFromTitle(meeting.title) = "OrgA"
    /\ orgResult = ReturnLabel("OrgA")

\* C20: the configured default is returned, and nothing is raised, when the
\* meeting is null or undefined and when no enabled strategy matches.
C20_DefaultWhenNoMatch ==
    orgPhase = "done"
        => /\ meeting.isNull => orgResult = ReturnLabel(orgConfig.defaultOrganization)
           /\ (/\ ~meeting.isNull
               /\ ~IsLabel(CalendarFinds)
               /\ ~IsLabel(TitleFinds)
               /\ ~IsLabel(PeopleFinds))
                 => orgResult = ReturnLabel(orgConfig.defaultOrganization)

(***************************************************************************)
(* The Markdown export (exportTranscriptMarkdown).  The file content is a  *)
(* sequence of characters.                                                 *)
(***************************************************************************)
MaxTranscript == 3

NullSpeaker == "(null)"
Newline == "\n"

\* the characters of a speaker label
SpeakerChars(speaker) ==
    CASE speaker = "Me" -> <<"M", "e">>
      [] speaker = "Them" -> <<"T", "h", "e", "m">>
      [] speaker = "Unknown" -> <<"U", "n", "k", "n", "o", "w", "n">>
      [] OTHER -> <<>>

\* `${currentSpeaker}:  \n`
HeadingLine(speaker) == SpeakerChars(speaker) \o <<":", " ", " ", Newline>>

\* `${textLine || ''}  \n`
TextLine(text) == text \o <<" ", " ", Newline>>

RECURSIVE TextLines(_)
TextLines(texts) ==
    IF Len(texts) = 0 THEN <<>>
    ELSE TextLine(Head(texts)) \o TextLines(Tail(texts))

\* the condition under which the loop writes the accumulated section, with
\* every segment treated as a change of speaker
SpeakerChangesAlways(currentSpeaker, speaker) == currentSpeaker # NullSpeaker

\* currentSpeaker !== null && currentSpeaker !== segment.speaker
SpeakerChanges(currentSpeaker, speaker) ==
    currentSpeaker # NullSpeaker /\ currentSpeaker # speaker

\* the for loop over the transcript, from segment k on, and the final write
RECURSIVE ExportLoop(_, _, _, _, _)
ExportLoop(segs, k, content, currentSpeaker, currentText) ==
    IF k > Len(segs)
    THEN IF currentSpeaker # NullSpeaker /\ Len(currentText) > 0
         THEN content \o HeadingLine(currentSpeaker) \o TextLines(currentText)
         ELSE content
    ELSE IF SpeakerChanges(currentSpeaker, segs[k].speaker)
         THEN ExportLoop(segs, k + 1,
                         content \o HeadingLine(currentSpeaker)
                                 \o TextLines(currentText) \o <<Newline>>,
                         segs[k].speaker, <<segs[k].text>>)
         ELSE ExportLoop(segs, k + 1, content, segs[k].speaker,
                         Append(currentText, segs[k].text))

\* the content built for a transcript
MarkdownContent(segs) == ExportLoop(segs, 1, <<" ", Newline>>, NullSpeaker, <<>>)

FileWritten(c) == [kind |-> "written", content |-> c, error |-> Undefined]
ExportFailed(e) == [kind |-> "throw", content |-> <<>>, error |-> e]

ExportSpeakers == {"Me", "Them", "Unknown"}
ExportTexts == {<<>>, <<"a">>, <<"b", "c">>}
ExportChoices == [speaker : ExportSpeakers, text : ExportTexts]

ExportInit ==
    /\ \E n \in 0..MaxTranscript : transcript \in [1..n -> ExportChoices]
    /\ exportPhase = "input"
    /\ written = NoFile

\* exportTranscriptMarkdown(documentId, outputPath, options), the
\* transcript fetched and Bun.write resolved
ExportTranscriptMarkdown ==
    /\ exportPhase = "input"
    /\ written' = FileWritten(MarkdownContent(transcript))
    /\ exportPhase' = "done"
    /\ UNCHANGED transcript

\* getDocumentTranscriptWithSpeakers or Bun.write rejects
ExportRejects ==
    /\ exportPhase = "input"
    /\ \E e \in {NetworkError, TimeoutError} : written' = ExportFailed(e)
    /\ exportPhase' = "done"
    /\ UNCHANGED transcript

InitExport ==
    HttpIdle /\ DedupIdle /\ SimIdle /\ TranscriptIdle /\ PageIdle /\ OrgIdle
    /\ ExportInit

NextExport ==
    \/ ExportTranscriptMarkdown /\ UNCHANGED nonExportVars
    \/ ExportRejects /\ UNCHANGED nonExportVars

SpecExport == InitExport /\ [][NextExport]_vars

\* first positions of the maximal runs of consecutive same-speaker segments
RunStarts(segs) ==
    {k \in 1..Len(segs) : k = 1 \/ segs[k].speaker # segs[k - 1].speaker}

\* last position of the run starting at k
RunEnd(segs, k) ==
    CHOOSE e \in k..Len(segs) :
        /\ \A m \in k..e : segs[m].speaker = segs[k].speaker
        /\ e = Len(segs) \/ segs[e + 1].speaker # segs[k].speaker

\* the lines of a content: the characters between line feeds
RECURSIVE SplitLines(_, _)
SplitLines(chars, line) ==
    IF Len(chars) = 0 THEN (IF Len(line) = 0 THEN <<>> ELSE <<line>>)
    ELSE IF Head(chars) = Newline THEN <<line>> \o SplitLines(Tail(chars), <<>>)
    ELSE SplitLines(Tail(chars), Append(line, Head(chars)))

HeadingText(speaker) == SpeakerChars(speaker) \o <<":", " ", " ">>
IsHeadingText(line) == \E sp \in ExportSpeakers : line = HeadingText(sp)

\* position in the file of the heading of the run starting at k: after the
\* opening line, and after the headings, texts and separators before it
HeadingLineOf(segs, k) ==
    1 + 2 * Cardinality({r \in RunStarts(segs) : r < k}) + (k - 1) + 1

\* C21: the file holds one '<speaker>:' heading per maximal run of
\* consecutive same-speaker segments, in segment order, followed by the
\* texts of the run, one per line, each ending in two spaces; every
\* segment's text is on exactly one line and consecutive headings differ
C21_OneHeadingPerRun ==
    written.kind = "written" =>
        LET lines == SplitLines(written.content, <<>>)
            starts == RunStarts(transcript)
            headings == {n \in 1..Len(lines) : IsHeadingText(lines[n])}
        IN  /\ Cardinality(headings) = Cardinality(starts)
            /\ Len(lines) = 1 + Len(transcript) + 2 * Cardinality(starts)
                              - (IF Len(transcript) = 0 THEN 0 ELSE 1)
            /\ \A k \in starts :
                  /\ lines[HeadingLineOf(transcript, k)]
                        = HeadingText(transcript[k].speaker)
                  /\ \A m \in k..RunEnd(transcript, k) :
                        lines[HeadingLineOf(transcript, k) + 1 + (m - k)]
                            = transcript[m].text \o <<" ", " ">>
            /\ \A a, b \in headings :
                  (a < b /\ \A n \in (a + 1)..(b - 1) : n \notin headings)
                      => lines[a] # lines[b]

\* a transcript whose first two segments share a speaker and whose third
\* has another one has been written
C21_Witness ==
    /\ written.kind = "written"
    /\ Len(transcript) = 3
    /\ transcript[1].speaker = transcript[2].speaker
    /\ transcript[2].speaker # transcript[3].speaker
    /\ transcript[1].text # transcript[2].text


(***************************************************************************)
(* Further claims about the transport.                                     *)
(***************************************************************************)
\* C22: every attempt of a call started after setToken(t) and before the
\* next setToken carries the header 'Authorization: Bearer t'
C22_SetTokenUsedAfterwards ==
    \A c \in CallIds :
        (call[c].afterSetToken /\ call[c].fetches > 0)
            => call[c].auth = AuthorizationHeader(lastSetToken)

\* C23: every backoff sleep of a call is followed by a further fetch
\* attempt: a call sleeps at most `retries` times, a finished call has made
\* more attempts than sleeps, and the final attempt does not sleep after a
\* 429/5xx response
C23_SleepOnlyBetweenAttempts ==
    \A c \in CallIds :
        /\ call[c].sleeps <= retries
        /\ call[c].pc = "done" => call[c].sleeps < Max(call[c].fetches, 1)
        /\ (call[c].attempt = retries /\ RetriableOutcome(call[c].resp))
              => call[c].pc # "sleeping"

\* C24: the token provider is never invoked while an earlier invocation of
\* it is still in progress
C24_ProviderNeverInvokedConcurrently ==
    Cardinality({c \in CallIds : call[c].pc = "provider"}) <= 1


(***************************************************************************)
(* Further claims about the speaker refinement.  The argument is in        *)
(* ascending order of start_time, so position k of the argument is         *)
(* position k of sortedSegments.                                           *)
(***************************************************************************)
RefineDone == tMode = "refine" /\ tPhase = "done"

\* segment k is the system-sourced member of an adjacent microphone/system
\* pair whose texts are more than 0.65 similar
SystemDuplicate(segs, k) ==
    /\ segs[k].source = "system"
    /\ \E j \in {k - 1, k + 1} \cap (1..Len(segs)) :
          /\ segs[j].source = "microphone"
          /\ FracGT(calculateTextSimilarity(segs[j].text, segs[k].text),
                    SkipSimilarity)

\* C25: a segment is missing from the result of _improveSpeakerAssignment
\* only if it entered with speaker "SKIP" or it is the system-sourced
\* member of an adjacent microphone/system pair more than 0.65 similar
C25_OnlyDuplicatesRemoved ==
    RefineDone =>
        /\ tResult.value = RemoveSkipped(tTrace.built)
        /\ \A k \in 1..Len(refineInput) :
              tTrace.built[k].speaker = "SKIP"
                  => \/ refineInput[k].speaker = "SKIP"
                     \/ SystemDuplicate(refineInput, k)

\* segment k is short and starts less than 0.5 s after the end of the
\* segment before it
ShortContinuation(segs, k) ==
    /\ k >= 2
    /\ Len(segs[k].text) < 8
    /\ TimeDiffLT(segs[k], segs[k - 1], 500)

\* C26: in the result of _improveSpeakerAssignment every short segment
\* that starts less than 0.5 s after the end of the segment before it has
\* confidence 0.8 and, when that segment is in the result too, its speaker
C26_ShortContinuationKept ==
    RefineDone =>
        \A k \in 1..Len(refineInput) :
            (ShortContinuation(refineInput, k) /\ tTrace.built[k].speaker # "SKIP")
                => /\ tTrace.built[k].confidence = <<4, 5>>
                   /\ tTrace.built[k - 1].speaker # "SKIP"
                         => tTrace.built[k].speaker = tTrace.built[k - 1].speaker


(***************************************************************************)
(* Further claims about the deduplication.                                 *)
(***************************************************************************)
\* b starts within the time window that opens at the start of a
InWindow(a, b) == ~GreaterThan(b.start_time, WindowEnd(a, timeWindowSeconds))

\* C27: no two kept segments are duplicates of each other: for kept
\* segments a before b with b.start_time <= a.start_time + timeWindowSeconds
\* the similarity of their texts is below similarityThreshold
C27_NoDuplicatesKept ==
    \A p \in DedupRunInputs :
        \A a, b \in 1..Len(p[2].output) :
            (a < b /\ InWindow(p[2].output[a], p[2].output[b]))
                => ~FracGE(calculateTextSimilarity(p[2].output[a].text,
                                                   p[2].output[b].text),
                           similarityThreshold)

\* three segments in one window were given, duplicates among them, and two
\* of them were kept
C27_Witness ==
    /\ dedupPhase = "once"
    /\ Len(segments) = 3
    /\ \A k \in 1..3 : segments[k].start_time = 0
    /\ Cardinality(dedupOnce.removed) = 1
    /\ Len(dedupOnce.output) = 2
    /\ dedupOnce.output[1].text # dedupOnce.output[2].text

\* C28: for a non-empty argument the result holds at least one segment
C28_NeverEmpty ==
    \A p \in DedupRunInputs : Len(p[1]) > 0 => Len(p[2].output) > 0

\* a chain of three segments, each a duplicate of the next, of mixed
\* sources, was reduced to one
C28_Witness ==
    /\ dedupPhase = "once"
    /\ Len(segments) = 3
    /\ Cardinality(dedupOnce.removed) = 2
    /\ Len(dedupOnce.output) = 1
    /\ \E k \in 1..3 : dedupOnce.sorted[k].source = "microphone"
    /\ \E k \in 1..3 : dedupOnce.sorted[k].source = "system"
    /\ \E e \in 1..Len(dedupOnce.log) : dedupOnce.log[e].gone = dedupOnce.log[e].i


(***************************************************************************)
(* Further claims about the organization detector.                         *)
(***************************************************************************)
WellFormed(attendees) ==
    \A k \in 1..Len(attendees) : HasAt(attendees[k])

\* the number of attendees whose e-mail domain matches the organization
AttendeeCount(org, attendees) ==
    Cardinality({k \in 1..Len(attendees) :
        /\ HasAt(attendees[k])
        /\ DomainMatches(org, SplitAtSecond(toLowerCase(attendees[k])))})

\* the organization with the highest count, the first such in the
\* configured list
HighestCount(attendees) ==
    IF \A o \in OrgIndexes : AttendeeCount(Organizations[o], attendees) = 0
    THEN NoMatch
    ELSE Organizations[CHOOSE o \in OrgIndexes :
            /\ \A m \in OrgIndexes :
                  AttendeeCount(Organizations[m], attendees)
                      <= AttendeeCount(Organizations[o], attendees)
            /\ \A m \in 1..(o - 1) :
                  AttendeeCount(Organizations[m], attendees)
                      < AttendeeCount(Organizations[o], attendees)].name

\* the calendar strategy is enabled and decides by its attendee count
CalendarCounts ==
    /\ orgConfig.useCalendarData
    /\ meeting.google_calendar_event.present
    /\ Len(meeting.google_calendar_event.creatorEmail) = 0
    /\ WellFormed(meeting.google_calendar_event.attendees)

\* the people strategy is the only one enabled and decides by its count
PeopleCounts ==
    /\ ~orgConfig.useCalendarData
    /\ ~orgConfig.useTitleKeywords
    /\ orgConfig.usePeopleData
    /\ meeting.people.present
    /\ Len(meeting.people.companyName) = 0
    /\ Len(meeting.people.creatorEmail) = 0
    /\ WellFormed(meeting.people.attendees)

\* C29: the attendee count of the calendar and people strategies returns
\* the organization with the highest count of matching attendees and, on a
\* tie, the one that comes first in the configured list, whatever the order
\* of the attendees
C29_TieGoesToConfiguredOrder ==
    (orgPhase = "done" /\ ~meeting.isNull)
        => /\ (/\ CalendarCounts
               /\ HighestCount(meeting.google_calendar_event.attendees) # NoMatch)
                 => orgResult
                       = ReturnLabel(HighestCount(meeting.google_calendar_event.attendees))
           /\ (PeopleCounts /\ HighestCount(meeting.people.attendees) # NoMatch)
                 => orgResult = ReturnLabel(HighestCount(meeting.people.attendees))

\* the labels detectOrganization may return
Labels ==
    {Organizations[o].name : o \in OrgIndexes} \cup {orgConfig.defaultOrganization}

\* C30: detectOrganization never raises: for every meeting record it
\* returns the name of a configured organization or defaultOrganization
C30_NeverRaises ==
    orgPhase = "done" => (orgResult.kind = "return" /\ orgResult.value \in Labels)


====
